---- MODULE Spec2Model ----
(***************************************************************************)
(* Model of the network address classes of mcast_mac_converter:           *)
(* NetAddress (NetAddress.py) and its children IPv4Address, IPv6Address   *)
(* and MACAddress.  A text is a sequence of one-character strings, an     *)
(* address object lives in a heap and is named by its index there, so     *)
(* that two names of one object (aliasing) can be told from two objects.  *)
(***************************************************************************)
EXTENDS Integers, Sequences, FiniteSets, TLC

(***************************************************************************)
(* Bounds of the exploration.                                              *)
(***************************************************************************)
\* fields added beyond the family's field count in generated texts
MaxExtraFields == 1
\* prefix lengths tried below 0 and above the family maximum
LenSlack == 1
\* octet indexes tried below 1 and above the number of octets
IdxSlack == 2
\* getNetwork() calls made on one object
MaxNetCalls == 2

(***************************************************************************)
(* Per-family parameters, as each child class passes them.                 *)
(***************************************************************************)
Families == {"IPv4", "IPv6", "MAC"}

\* field count handed to _splitInputString
NumFields(fam) == CASE fam = "IPv4" -> 4 [] fam = "IPv6" -> 8 [] fam = "MAC" -> 6

\* delimiter handed to _splitInputString
Delim(fam) == CASE fam = "IPv4" -> "." [] fam = "IPv6" -> ":" [] fam = "MAC" -> ":"

\* base handed to int()
Base(fam) == CASE fam = "IPv4" -> 10 [] fam = "IPv6" -> 16 [] fam = "MAC" -> 16

\* largest field value the parser lets through
MaxField(fam) == CASE fam = "IPv4" -> 255 [] fam = "IPv6" -> 65535 [] fam = "MAC" -> 255

\* upper bound of addrLen tested by the child constructor
MaxAddrLen(fam) == CASE fam = "IPv4" -> 32 [] fam = "IPv6" -> 128 [] fam = "MAC" -> 48

\* number of octets the final sanity check of the parser demands
NumOctets(fam) == CASE fam = "IPv4" -> 4 [] fam = "IPv6" -> 16 [] fam = "MAC" -> 6

(***************************************************************************)
(* Python primitives used by the classes.                                  *)
(***************************************************************************)
\* value of one digit character, as int() reads it
DigitVal ==
  [c \in {"0","1","2","3","4","5","6","7","8","9",
          "a","b","c","d","e","f","A","B","C","D","E","F"} |->
     CASE c = "0" -> 0 [] c = "1" -> 1 [] c = "2" -> 2 [] c = "3" -> 3
       [] c = "4" -> 4 [] c = "5" -> 5 [] c = "6" -> 6 [] c = "7" -> 7
       [] c = "8" -> 8 [] c = "9" -> 9
       [] c \in {"a","A"} -> 10 [] c \in {"b","B"} -> 11
       [] c \in {"c","C"} -> 12 [] c \in {"d","D"} -> 13
       [] c \in {"e","E"} -> 14 [] c \in {"f","F"} -> 15]

IsDigit(c, base) == c \in DOMAIN DigitVal /\ DigitVal[c] < base

RECURSIVE DigitsValue(_, _)
DigitsValue(s, base) ==
  IF s = <<>> THEN 0
  ELSE DigitsValue(SubSeq(s, 1, Len(s) - 1), base) * base + DigitVal[s[Len(s)]]

\* int(s, base): an optional sign, then at least one digit of the base;
\* anything else raises ValueError
PyInt(s, base) ==
  LET signed == s # <<>> /\ s[1] \in {"-", "+"}
      body   == IF signed THEN Tail(s) ELSE s
  IN  IF body = <<>> \/ \E i \in 1..Len(body) : ~IsDigit(body[i], base)
      THEN [err |-> "ValueError", val |-> 0]
      ELSE [err |-> "none",
            val |-> IF s[1] = "-" THEN 0 - DigitsValue(body, base)
                    ELSE DigitsValue(body, base)]

\* s.split(d) for a one-character separator d
RECURSIVE PySplit(_, _)
PySplit(s, d) ==
  IF \A i \in 1..Len(s) : s[i] # d THEN <<s>>
  ELSE LET i == CHOOSE k \in 1..Len(s) :
                  s[k] = d /\ \A j \in 1..(k - 1) : s[j] # d
       IN  <<SubSeq(s, 1, i - 1)>> \o PySplit(SubSeq(s, i + 1, Len(s)), d)

\* x & y and x ^ y on non-negative integers
RECURSIVE BitAnd(_, _)
BitAnd(x, y) ==
  IF x = 0 \/ y = 0 THEN 0
  ELSE (x % 2) * (y % 2) + 2 * BitAnd(x \div 2, y \div 2)

RECURSIVE BitXor(_, _)
BitXor(x, y) ==
  IF x = 0 THEN y
  ELSE IF y = 0 THEN x
  ELSE (((x % 2) + (y % 2)) % 2) + 2 * BitXor(x \div 2, y \div 2)

RECURSIVE Pow2(_)
Pow2(n) == IF n = 0 THEN 1 ELSE 2 * Pow2(n - 1)

\* the digits of hex(n) and str(n), lower case, no leading zero
HexChars == <<"0","1","2","3","4","5","6","7","8","9","a","b","c","d","e","f">>

RECURSIVE DigitsOf(_, _)
DigitsOf(n, base) ==
  IF n < base THEN <<HexChars[n + 1]>>
  ELSE DigitsOf(n \div base, base) \o <<HexChars[(n % base) + 1]>>

\* hex(n) for n >= 0: "0x" and the digits
PyHex(n) == <<"0", "x">> \o DigitsOf(n, 16)

\* str(n) of an integer
PyStr(n) == IF n < 0 THEN <<"-">> \o DigitsOf(0 - n, 10) ELSE DigitsOf(n, 10)

\* s.zfill(width) of an unsigned text
RECURSIVE PyZfill(_, _)
PyZfill(s, width) == IF Len(s) >= width THEN s ELSE PyZfill(<<"0">> \o s, width)

\* s[i:] with a 0-based start
PySliceFrom(s, i) == SubSeq(s, i + 1, Len(s))

\* variant: the padding to two digits is left out
HexOctet_noFill(value) == PySliceFrom(PyHex(value), 2)

\* str(hex(value)[2:].zfill(2)), the "xx" form of one octet
HexOctet(value) == PyZfill(PySliceFrom(PyHex(value), 2), 2)

(***************************************************************************)
(* NetAddress._splitInputString                                            *)
(***************************************************************************)
\* a text is [isNone |-> BOOLEAN, chars |-> sequence of characters]
_splitInputString(inputString, delim, numOctets) ==
  IF inputString.isNone \/ Len(inputString.chars) = 0
  THEN [err |-> "AttributeError", val |-> <<>>]
  ELSE LET stringOctets == PySplit(inputString.chars, delim)
       IN  IF Len(stringOctets) # numOctets
           THEN [err |-> "ValueError", val |-> <<>>]
           ELSE [err |-> "none", val |-> stringOctets]

(***************************************************************************)
(* _parseInputString of the three children.  The loop over the fields      *)
(* stops at the first field that raises.                                   *)
(***************************************************************************)
\* variant: the upper limit is off by one
OctetOutOfRange_off(current) == current < 0 \/ current > 256

\* variant: the lower limit is not tested
OctetOutOfRange_neg(current) == current > 255

\* the range test of IPv4Address and MACAddress on one parsed field
OctetOutOfRange(current) == current < 0 \/ current > 255

RECURSIVE OctetLoop(_, _, _)
OctetLoop(stringOctets, base, integerOctets) ==
  IF stringOctets = <<>> THEN [err |-> "none", val |-> integerOctets]
  ELSE LET current == PyInt(Head(stringOctets), base)
       IN  IF current.err # "none" THEN [err |-> current.err, val |-> <<>>]
           ELSE IF OctetOutOfRange(current.val)
           THEN [err |-> "ValueError", val |-> <<>>]
           ELSE OctetLoop(Tail(stringOctets), base,
                          Append(integerOctets, current.val))

IPv4_parseInputString(inputString) ==
  LET ipStringOctets == _splitInputString(inputString, ".", 4)
  IN  IF ipStringOctets.err # "none" THEN ipStringOctets
      ELSE LET integerOctets == OctetLoop(ipStringOctets.val, 10, <<>>)
           IN  IF integerOctets.err # "none" THEN integerOctets
               ELSE IF Len(integerOctets.val) # 4
               THEN [err |-> "ValueError", val |-> <<>>]
               ELSE integerOctets

MAC_parseInputString(inputString) ==
  LET ipStringOctets == _splitInputString(inputString, ":", 6)
  IN  IF ipStringOctets.err # "none" THEN ipStringOctets
      ELSE LET integerOctets == OctetLoop(ipStringOctets.val, 16, <<>>)
           IN  IF integerOctets.err # "none" THEN integerOctets
               ELSE IF Len(integerOctets.val) # 6
               THEN [err |-> "ValueError", val |-> <<>>]
               ELSE integerOctets

\* the range test of IPv6Address on one parsed 16-bit group
GroupOutOfRange(current) == current < 0 \/ current > 65535

\* variant: the low byte of a group is stored before its high byte
RECURSIVE GroupLoop_lowFirst(_, _)
GroupLoop_lowFirst(stringOctets, integerOctets) ==
  IF stringOctets = <<>> THEN [err |-> "none", val |-> integerOctets]
  ELSE LET current == PyInt(Head(stringOctets), 16)
       IN  IF current.err # "none" THEN [err |-> current.err, val |-> <<>>]
           ELSE IF GroupOutOfRange(current.val)
           THEN [err |-> "ValueError", val |-> <<>>]
           ELSE GroupLoop_lowFirst(Tail(stringOctets),
                                   integerOctets \o <<BitAnd(current.val, 255),
                                                      current.val \div 256>>)

RECURSIVE GroupLoop(_, _)
GroupLoop(stringOctets, integerOctets) ==
  IF stringOctets = <<>> THEN [err |-> "none", val |-> integerOctets]
  ELSE LET current == PyInt(Head(stringOctets), 16)
       IN  IF current.err # "none" THEN [err |-> current.err, val |-> <<>>]
           ELSE IF GroupOutOfRange(current.val)
           THEN [err |-> "ValueError", val |-> <<>>]
           ELSE LET currentLowOrder8bits  == BitAnd(current.val, 255)
                    currentHighOrder8bits == current.val \div 256
                IN  IF currentLowOrder8bits < 0 \/ currentLowOrder8bits > 255
                       \/ currentHighOrder8bits < 0
                       \/ currentHighOrder8bits > 255
                    THEN [err |-> "ValueError", val |-> <<>>]
                    ELSE GroupLoop(Tail(stringOctets),
                                   integerOctets \o <<currentHighOrder8bits,
                                                      currentLowOrder8bits>>)

IPv6_parseInputString(inputString) ==
  LET ipStringOctets == _splitInputString(inputString, ":", 8)
  IN  IF ipStringOctets.err # "none" THEN ipStringOctets
      ELSE LET integerOctets == GroupLoop(ipStringOctets.val, <<>>)
           IN  IF integerOctets.err # "none" THEN integerOctets
               ELSE IF Len(integerOctets.val) # 16
               THEN [err |-> "ValueError", val |-> <<>>]
               ELSE integerOctets

\* dispatch of the abstract method on the class of the object
_parseInputString(fam, inputString) ==
  CASE fam = "IPv4" -> IPv4_parseInputString(inputString)
    [] fam = "IPv6" -> IPv6_parseInputString(inputString)
    [] fam = "MAC"  -> MAC_parseInputString(inputString)

(***************************************************************************)
(* Constructors.  The child tests the upper bound of addrLen, then the     *)
(* parent parses the text and only then tests the lower bound.             *)
(***************************************************************************)
NoObject == [fam |-> "none", _octet |-> <<>>, _addrLen |-> 0]

NetAddress_init(fam, inputString, addrLen) ==
  LET parsed == _parseInputString(fam, inputString)
  IN  IF parsed.err # "none" THEN [err |-> parsed.err, obj |-> NoObject]
      ELSE IF addrLen < 0 THEN [err |-> "ValueError", obj |-> NoObject]
      ELSE [err |-> "none",
            obj |-> [fam |-> fam, _octet |-> parsed.val, _addrLen |-> addrLen]]

IPv4_init(inputString, addrLen) ==
  IF addrLen > 32 THEN [err |-> "ValueError", obj |-> NoObject]
  ELSE NetAddress_init("IPv4", inputString, addrLen)

IPv6_init(inputString, addrLen) ==
  IF addrLen > 128 THEN [err |-> "ValueError", obj |-> NoObject]
  ELSE NetAddress_init("IPv6", inputString, addrLen)

MAC_init(inputString, addrLen) ==
  IF addrLen > 48 THEN [err |-> "ValueError", obj |-> NoObject]
  ELSE NetAddress_init("MAC", inputString, addrLen)

\* construction dispatches on the class named by the caller
Construct_result(fam, inputString, addrLen) ==
  CASE fam = "IPv4" -> IPv4_init(inputString, addrLen)
    [] fam = "IPv6" -> IPv6_init(inputString, addrLen)
    [] fam = "MAC"  -> MAC_init(inputString, addrLen)

(***************************************************************************)
(* Accessors of NetAddress.                                                *)
(***************************************************************************)
\* len(self)
__len__(self) == Len(self._octet)

getAddrLen(self) == self._addrLen

\* variant: the index is taken as 0-based
getOctet_zeroBased(self, octet) ==
  IF octet >= 0 /\ octet < Len(self._octet)
  THEN self._octet[octet + 1]
  ELSE -1

\* 1-based lookup; -1 signals an index out of bounds
getOctet(self, octet) ==
  IF octet >= 1 /\ octet <= Len(self._octet)
  THEN self._octet[octet]
  ELSE -1

\* variant: the value is stored without its range test
_setOctet_anyValue(self, octet, value) ==
  IF octet >= 1 /\ octet <= Len(self._octet)
  THEN [self EXCEPT !._octet[octet] = value]
  ELSE self

\* the octet list after self._setOctet(octet, value)
_setOctet(self, octet, value) ==
  IF (octet >= 1 /\ octet <= Len(self._octet)) /\ (value >= 0 /\ value <= 255)
  THEN [self EXCEPT !._octet[octet] = value]
  ELSE self

IPv4_getHostLen(self) == 32 - getAddrLen(self)

IPv6_getHostLen(self) == 128 - getAddrLen(self)

MAC_getHostLen(self) == 48 - getAddrLen(self)

getHostLen(self) ==
  CASE self.fam = "IPv4" -> IPv4_getHostLen(self)
    [] self.fam = "IPv6" -> IPv6_getHostLen(self)
    [] self.fam = "MAC"  -> MAC_getHostLen(self)

(***************************************************************************)
(* NetAddress.getNetwork.  "prefix = self" binds a second name to the      *)
(* object the method was called on; no object is created.  The operator    *)
(* gives the content of that one object when the method returns.           *)
(***************************************************************************)
\* for i in range(octetsToClear, 0, -1): prefix._setOctet((len(self)+1)-i, 0)
RECURSIVE ClearLoop(_, _)
ClearLoop(prefix, i) ==
  IF i <= 0 THEN prefix
  ELSE ClearLoop(_setOctet(prefix, (__len__(prefix) + 1) - i, 0), i - 1)

\* variant: the subtraction of 1 is left out
NetMask_noMinus(remainingBitsToClear) == BitXor(Pow2(remainingBitsToClear), 255)

\* mask = (pow(2, remainingBitsToClear) - 1) ^ 0xFF
NetMask(remainingBitsToClear) == BitXor(Pow2(remainingBitsToClear) - 1, 255)

\* variant: the mask is applied with ^ where & is meant
getNetwork_xor(self) ==
  LET octetsToClear == getHostLen(self) \div 8
      prefix        == ClearLoop(self, octetsToClear)
  IN  IF octetsToClear > __len__(prefix) - 1 THEN prefix
      ELSE LET currentOctet         == __len__(prefix) - octetsToClear
               remainingBitsToClear == getHostLen(prefix) % 8
               mask                 == BitXor(Pow2(remainingBitsToClear) - 1, 255)
           IN  _setOctet(prefix, currentOctet,
                         BitXor(getOctet(prefix, currentOctet), mask))

getNetwork(self) ==
  LET octetsToClear == getHostLen(self) \div 8
      prefix        == ClearLoop(self, octetsToClear)
  IN  IF octetsToClear > __len__(prefix) - 1 THEN prefix
      ELSE LET currentOctet         == __len__(prefix) - octetsToClear
               remainingBitsToClear == getHostLen(prefix) % 8
               mask                 == NetMask(remainingBitsToClear)
           IN  _setOctet(prefix, currentOctet,
                         BitAnd(getOctet(prefix, currentOctet), mask))

(***************************************************************************)
(* Classification predicates of the three children.                        *)
(***************************************************************************)
\* variant: 224 counted as unicast
IPv4_isUnicast_le(self) == self._octet[1] <= 224

IPv4_isUnicast(self) == self._octet[1] < 224

IPv4_isMulticast(self) == self._octet[1] >= 224 /\ self._octet[1] <= 239

\* variant: 239 counted as experimental
IPv4_isExperimental_ge(self) == self._octet[1] >= 239

IPv4_isExperimental(self) == self._octet[1] > 239

\* IPv4Address.isPrivateAddress(): the if / elif chain, in order
IPv4_isPrivateAddress(self) ==
  IF self._octet[1] = 10 THEN TRUE
  ELSE IF self._octet[1] = 172 /\ (self._octet[2] >= 16 /\ self._octet[2] <= 31)
  THEN TRUE
  ELSE IF self._octet[1] = 192 /\ self._octet[2] >= 168 THEN TRUE
  ELSE IF self._octet[1] = 239 THEN TRUE
  ELSE FALSE

IPv6_isUnicast(self) == self._octet[1] # 255

IPv6_isMulticast(self) == self._octet[1] = 255

\* bitIndex and byteIndex are canonical (0-based), bit 0 is the high bit
_isBitset(self, bitIndex, byteIndex) ==
  LET byteValue == self._octet[byteIndex + 1]
      bitValue  == Pow2(7 - bitIndex)
  IN  BitAnd(byteValue, bitValue) = bitValue

isULset(self) == _isBitset(self, 6, 0)

\* variant: bit 0 taken to be the low bit
isIGset_bit0(self) == _isBitset(self, 0, 0)

isIGset(self) == _isBitset(self, 7, 0)

\* variant: the U/L bit is tested where the I/G bit is meant
MAC_isUnicast_ul(self) == ~isULset(self)

MAC_isUnicast(self) == ~isIGset(self)

MAC_isMulticast(self) == isIGset(self)

isUnicast(self) ==
  CASE self.fam = "IPv4" -> IPv4_isUnicast(self)
    [] self.fam = "IPv6" -> IPv6_isUnicast(self)
    [] self.fam = "MAC"  -> MAC_isUnicast(self)

isMulticast(self) ==
  CASE self.fam = "IPv4" -> IPv4_isMulticast(self)
    [] self.fam = "IPv6" -> IPv6_isMulticast(self)
    [] self.fam = "MAC"  -> MAC_isMulticast(self)

\* variant: the 6to4 prefix taken to be 2001::/16
is6to4_2001(self) == self._octet[1] = 32 /\ self._octet[2] = 1

\* IPv6Address.is6to4: the first two octets are 0x20, 0x02
is6to4(self) == self._octet[1] = 32 /\ self._octet[2] = 2

\* IPv6Address.isLinkLocalAddress: FE80::/10
IPv6_isLinkLocalAddress(self) ==
  self._octet[1] = 254 /\ self._octet[2] >= 128 /\ self._octet[2] <= 191

\* IPv6Address.isUniqueLocalAddress: FC00::/7
isUniqueLocalAddress(self) == self._octet[1] = 252 \/ self._octet[1] = 253

(***************************************************************************)
(* String forms.  Each method appends octet after octet to an empty text;  *)
(* i is the 0-based loop index.                                            *)
(***************************************************************************)
RECURSIVE IPv4_toStringLoop(_, _, _)
IPv4_toStringLoop(self, i, ipString) ==
  IF i >= Len(self._octet) THEN ipString
  ELSE LET withOctet == ipString \o PyStr(self._octet[i + 1])
       IN  IPv4_toStringLoop(self, i + 1,
             IF i < Len(self._octet) - 1 THEN withOctet \o <<".">>
             ELSE withOctet)

\* dotted decimal, xx.xx.xx.xx
IPv4_toString(self) == IPv4_toStringLoop(self, 0, <<>>)

RECURSIVE IPv4_toStringHexLoop(_, _, _)
IPv4_toStringHexLoop(self, i, ipString) ==
  IF i >= Len(self._octet) THEN ipString
  ELSE IPv4_toStringHexLoop(self, i + 1, ipString \o HexOctet(self._octet[i + 1]))

\* contiguous hexadecimal, 0xaabbccdd
IPv4_toStringHex(self) == IPv4_toStringHexLoop(self, 0, <<"0", "x">>)

\* variant: a colon after every second octet, the last one included
IPv6_colonAfter_trailing(i, octetLength) == i % 2 = 1

\* a colon after every second octet, except the last
IPv6_colonAfter(i, octetLength) == i % 2 = 1 /\ i < octetLength - 1

RECURSIVE IPv6_toStringLoop(_, _, _)
IPv6_toStringLoop(self, i, ipv6String) ==
  IF i >= Len(self._octet) THEN ipv6String
  ELSE LET withOctet == ipv6String \o HexOctet(self._octet[i + 1])
       IN  IPv6_toStringLoop(self, i + 1,
             IF IPv6_colonAfter(i, Len(self._octet)) THEN withOctet \o <<":">>
             ELSE withOctet)

\* fully extended form, xxxx:xxxx:xxxx:xxxx:xxxx:xxxx:xxxx:xxxx
IPv6_toString(self) == IPv6_toStringLoop(self, 0, <<>>)

RECURSIVE MAC_toStringLoop(_, _, _)
MAC_toStringLoop(self, i, macString) ==
  IF i >= Len(self._octet) THEN macString
  ELSE LET withOctet == macString \o HexOctet(self._octet[i + 1])
       IN  MAC_toStringLoop(self, i + 1,
             IF i < Len(self._octet) - 1 THEN withOctet \o <<":">>
             ELSE withOctet)

\* EUI form, xx:xx:xx:xx:xx:xx
MAC_toString(self) == MAC_toStringLoop(self, 0, <<>>)

RECURSIVE toStringCiscoLoop(_, _, _)
toStringCiscoLoop(self, i, macString) ==
  IF i >= Len(self._octet) THEN macString
  ELSE LET withOctet == macString \o HexOctet(self._octet[i + 1])
       IN  toStringCiscoLoop(self, i + 1,
             IF i % 2 = 1 /\ i < Len(self._octet) - 1 THEN withOctet \o <<".">>
             ELSE withOctet)

\* Cisco form, xxxx.xxxx.xxxx
toStringCisco(self) == toStringCiscoLoop(self, 0, <<>>)

\* dispatch of the abstract method; also what str(address) gives
toString(self) ==
  CASE self.fam = "IPv4" -> IPv4_toString(self)
    [] self.fam = "IPv6" -> IPv6_toString(self)
    [] self.fam = "MAC"  -> MAC_toString(self)

(***************************************************************************)
(* Inputs.  A generated text is n fields joined by the family delimiter:   *)
(* one first field and n-1 copies of another field.  Each field comes with *)
(* what it denotes (num: it is a number of the family's base; v: that      *)
(* number), so that a parse can be compared with what was written.         *)
(***************************************************************************)
\* first fields of IPv4 texts, around the class thresholds and the octet range
IPv4FirstFields ==
  { [s |-> <<"0">>, num |-> TRUE, v |-> 0],
    [s |-> <<"2", "0">>, num |-> TRUE, v |-> 20],
    [s |-> <<"2", "2", "3">>, num |-> TRUE, v |-> 223],
    [s |-> <<"2", "2", "4">>, num |-> TRUE, v |-> 224],
    [s |-> <<"2", "3", "9">>, num |-> TRUE, v |-> 239],
    [s |-> <<"2", "4", "0">>, num |-> TRUE, v |-> 240],
    [s |-> <<"2", "5", "5">>, num |-> TRUE, v |-> 255],
    [s |-> <<"2", "5", "6">>, num |-> TRUE, v |-> 256],
    [s |-> <<"-", "3">>, num |-> TRUE, v |-> -3],
    [s |-> <<"g">>, num |-> FALSE, v |-> 0],
    [s |-> <<>>, num |-> FALSE, v |-> 0] }

\* other fields of IPv4 texts
IPv4RestFields ==
  { [s |-> <<"0">>, num |-> TRUE, v |-> 0],
    [s |-> <<"6", "8">>, num |-> TRUE, v |-> 68],
    [s |-> <<"2", "5", "5">>, num |-> TRUE, v |-> 255],
    [s |-> <<"2", "5", "6">>, num |-> TRUE, v |-> 256],
    [s |-> <<"-", "3">>, num |-> TRUE, v |-> -3],
    [s |-> <<"1", "f">>, num |-> FALSE, v |-> 0],
    [s |-> <<>>, num |-> FALSE, v |-> 0] }

\* first fields of MAC texts, over the I/G and U/L bits and the octet range
MACFirstFields ==
  { [s |-> <<"0", "0">>, num |-> TRUE, v |-> 0],
    [s |-> <<"0", "1">>, num |-> TRUE, v |-> 1],
    [s |-> <<"0", "2">>, num |-> TRUE, v |-> 2],
    [s |-> <<"0", "3">>, num |-> TRUE, v |-> 3],
    [s |-> <<"f", "e">>, num |-> TRUE, v |-> 254],
    [s |-> <<"F", "F">>, num |-> TRUE, v |-> 255],
    [s |-> <<"1", "0", "0">>, num |-> TRUE, v |-> 256],
    [s |-> <<"-", "1">>, num |-> TRUE, v |-> -1],
    [s |-> <<"g", "g">>, num |-> FALSE, v |-> 0],
    [s |-> <<>>, num |-> FALSE, v |-> 0] }

\* other fields of MAC texts
MACRestFields ==
  { [s |-> <<"0", "0">>, num |-> TRUE, v |-> 0],
    [s |-> <<"4", "4">>, num |-> TRUE, v |-> 68],
    [s |-> <<"f", "f">>, num |-> TRUE, v |-> 255],
    [s |-> <<"1", "0", "0">>, num |-> TRUE, v |-> 256],
    [s |-> <<"g">>, num |-> FALSE, v |-> 0],
    [s |-> <<>>, num |-> FALSE, v |-> 0] }

\* first groups of IPv6 texts, over the special ranges and the group range
IPv6FirstFields ==
  { [s |-> <<"0", "0", "0", "0">>, num |-> TRUE, v |-> 0],
    [s |-> <<"2", "0", "0", "1">>, num |-> TRUE, v |-> 8193],
    [s |-> <<"2", "0", "0", "2">>, num |-> TRUE, v |-> 8194],
    [s |-> <<"f", "c", "0", "0">>, num |-> TRUE, v |-> 64512],
    [s |-> <<"f", "d", "0", "0">>, num |-> TRUE, v |-> 64768],
    [s |-> <<"f", "e", "7", "f">>, num |-> TRUE, v |-> 65151],
    [s |-> <<"f", "e", "8", "0">>, num |-> TRUE, v |-> 65152],
    [s |-> <<"f", "e", "b", "f">>, num |-> TRUE, v |-> 65215],
    [s |-> <<"f", "e", "c", "0">>, num |-> TRUE, v |-> 65216],
    [s |-> <<"F", "F", "0", "2">>, num |-> TRUE, v |-> 65282],
    [s |-> <<"1", "0", "0", "0", "0">>, num |-> TRUE, v |-> 65536],
    [s |-> <<"-", "1">>, num |-> TRUE, v |-> -1],
    [s |-> <<"g", "g", "g", "g">>, num |-> FALSE, v |-> 0],
    [s |-> <<>>, num |-> FALSE, v |-> 0] }

\* other groups of IPv6 texts
IPv6RestFields ==
  { [s |-> <<"0", "0", "0", "0">>, num |-> TRUE, v |-> 0],
    [s |-> <<"a", "5", "5", "a">>, num |-> TRUE, v |-> 42330],
    [s |-> <<"f", "f", "f", "f">>, num |-> TRUE, v |-> 65535],
    [s |-> <<"1", "0", "0", "0", "0">>, num |-> TRUE, v |-> 65536],
    [s |-> <<"g">>, num |-> FALSE, v |-> 0],
    [s |-> <<>>, num |-> FALSE, v |-> 0] }

FirstFields(fam) ==
  CASE fam = "IPv4" -> IPv4FirstFields
    [] fam = "IPv6" -> IPv6FirstFields
    [] fam = "MAC"  -> MACFirstFields

RestFields(fam) ==
  CASE fam = "IPv4" -> IPv4RestFields
    [] fam = "IPv6" -> IPv6RestFields
    [] fam = "MAC"  -> MACRestFields

\* a field one above the family's largest field value
OverflowField(fam) ==
  CASE fam = "IPv4" -> [s |-> <<"2", "5", "6">>, num |-> TRUE, v |-> 256]
    [] fam = "IPv6" -> [s |-> <<"1", "0", "0", "0", "0">>, num |-> TRUE, v |-> 65536]
    [] fam = "MAC"  -> [s |-> <<"1", "0", "0">>, num |-> TRUE, v |-> 256]

\* the n fields: first, then rest, ..., rest, then last
FieldList(first, rest, n, last) ==
  [k \in 1..n |-> IF k = 1 THEN first
                  ELSE IF k = n THEN last
                  ELSE rest]

\* delim.join(field texts)
RECURSIVE JoinFields(_, _)
JoinFields(fields, delim) ==
  IF fields = <<>> THEN <<>>
  ELSE IF Len(fields) = 1 THEN fields[1].s
  ELSE fields[1].s \o <<delim>> \o JoinFields(Tail(fields), delim)

\* field counts tried: none, one too few, exact, and up to MaxExtraFields more
FieldCounts(fam) == {0} \cup ((NumFields(fam) - 1)..(NumFields(fam) + MaxExtraFields))

\* prefix lengths tried
AddrLens(fam) == (0 - LenSlack)..(MaxAddrLen(fam) + LenSlack)

\* octet indexes tried on an object of len octets
OctetIndexes(len) == (1 - IdxSlack)..(len + IdxSlack)

(***************************************************************************)
(* pmtud.py: the packets of the path MTU search.                           *)
(***************************************************************************)
\* "M" * n: n copies, none when n is not positive
PyRepeat(c, n) == [i \in 1..(IF n > 0 THEN n ELSE 0) |-> c]

\* ":" in dest_ip
HasColon(dest) == \E i \in 1..Len(dest) : dest[i] = ":"

\* len(pkt): the IP header, the ICMP header and the payload
PktLen(p) == p.ip + p.icmp + Len(p.payload)

\* the packet _make_ping builds before its size check:
\* IPv6(dst) / ICMPv6EchoRequest(data) or IP(dst, flags=0x2) / ICMP() / Raw
PingPacket(dest, size) ==
  IF HasColon(dest)
  THEN [version |-> 6, ip |-> 40, icmp |-> 8, flags |-> 0,
        payload |-> PyRepeat("M", size - 48)]
  ELSE [version |-> 4, ip |-> 20, icmp |-> 8, flags |-> 2,
        payload |-> PyRepeat("M", size - 28)]

\* _make_ping(dest_ip, mid): the packet, or AssertionError when its length
\* is not mid
_make_ping(dest, size) ==
  IF PktLen(PingPacket(dest, size)) = size
  THEN [err |-> "none", pkt |-> PingPacket(dest, size)]
  ELSE [err |-> "AssertionError", pkt |-> PingPacket(dest, size)]

\* _is_icmp_echo_reply(resp)
_is_icmp_echo_reply(r) ==
  IF r.version = 4
  THEN [err |-> "none",
        val |-> r.type = 0 /\ r.code = 0 /\ BitAnd(r.flags, 1) = 0]
  ELSE IF r.version = 6
  THEN [err |-> "none", val |-> r.type = 129 /\ r.code = 0 /\ r.nh = 58]
  ELSE [err |-> "ValueError", val |-> FALSE]

\* what sr1() can return: None on timeout, or a packet
NoResponse == [kind |-> "None", version |-> 0, type |-> 0, code |-> 0,
               flags |-> 0, nh |-> 0]

\* resp before the loop has assigned it
Unbound == [kind |-> "unbound", version |-> 0, type |-> 0, code |-> 0,
            flags |-> 0, nh |-> 0]

EchoReply(dest) ==
  IF HasColon(dest)
  THEN [kind |-> "packet", version |-> 6, type |-> 129, code |-> 0,
        flags |-> 0, nh |-> 58]
  ELSE [kind |-> "packet", version |-> 4, type |-> 0, code |-> 0,
        flags |-> 0, nh |-> 1]

\* answers that are no clean echo-reply: an ICMP error, and an echo-reply
\* that arrives fragmented
OtherResponses(dest) ==
  IF HasColon(dest)
  THEN { [kind |-> "packet", version |-> 6, type |-> 2, code |-> 0,
          flags |-> 0, nh |-> 58],
         [kind |-> "packet", version |-> 6, type |-> 129, code |-> 0,
          flags |-> 0, nh |-> 44] }
  ELSE { [kind |-> "packet", version |-> 4, type |-> 3, code |-> 4,
          flags |-> 0, nh |-> 1],
         [kind |-> "packet", version |-> 4, type |-> 0, code |-> 0,
          flags |-> 1, nh |-> 1] }

\* the network: with a path MTU every probe up to that size is answered by
\* an echo-reply and every larger one by nothing; without one ("any") every
\* probe may get any answer
Answers(net, dest, size) ==
  IF net.mode = "path"
  THEN IF size <= net.mtu THEN {EchoReply(dest)} ELSE {NoResponse}
  ELSE {NoResponse, EchoReply(dest)} \cup OtherResponses(dest)

\* mid = (upper + lower) // 2
Midpoint(lo, up) == (up + lo) \div 2

\* variant: a failed midpoint stays in the interval
FailUpper_keepMid(m) == m

\* the arguments of the two recursive calls: find_mtu(mid + 1, upper, ...)
\* and find_mtu(lower, mid - 1, ...)
OkLower(m) == m + 1

FailUpper(m) == m - 1

(***************************************************************************)
(* State.                                                                  *)
(***************************************************************************)
VARIABLES
  fam,          \* class being constructed
  inFields,     \* the fields the input text was written from
  inputString,  \* constructor argument: the text (or None)
  inAddrLen,    \* constructor argument: the prefix length
  pc,           \* "new", "ready" (object built) or "failed" (constructor raised)
  err,          \* exception raised by the constructor, "none" if none
  heap,         \* the objects that exist, by identity
  self,         \* identity of the constructed object, 0 before it exists
  op,           \* last method called on the object
  arg,          \* its argument
  ret,          \* its result: an object identity, an integer, or the
                \* names of the predicates that answered True
  pre,          \* content of the object when the last getNetwork() began
  netCalls,     \* number of getNetwork() or _setOctet() calls made
  args,         \* mip2mac, mip2mac6: the arguments of the run
  idx,          \* number of inputs the script's loop has consumed
  out,          \* what the script has printed, in order
  lines,        \* ans_inv_from_eui64: the lines read from input_macs.txt
  v6_prefix,    \* ans_inv_from_eui64: the prefix main() was called with
  ansible_inv,  \* ans_inv_from_eui64: the hosts of the inventory, in order
  lower,        \* find_mtu: argument of the current call
  upper,        \* find_mtu: argument of the current call
  retry,        \* find_mtu: probes per midpoint
  dest_ip,      \* find_mtu: the target address
  mid,          \* find_mtu: midpoint of the current call
  tries,        \* find_mtu: turns of the probe loop made in the current call
  pkt,          \* find_mtu: the last packet built
  resp,         \* find_mtu: the last answer of sr1(), Unbound before any
  mtu,          \* the value find_mtu returned
  net,          \* the network probed: its path MTU, or any answers
  call0,        \* lower and upper of the initial call
  caller        \* the call that made the current one, and its verdict

vars == <<fam, inFields, inputString, inAddrLen, pc, err, heap, self,
          op, arg, ret, pre, netCalls, args, idx, out,
          lines, v6_prefix, ansible_inv,
          lower, upper, retry, dest_ip, mid, tries, pkt, resp, mtu, net,
          call0, caller>>

\* the state of pmtud, untouched by everything else
mtuVars == <<lower, upper, retry, dest_ip, mid, tries, pkt, resp, mtu, net,
             call0, caller>>

NoCall == [lower |-> 0, upper |-> 0, mid |-> 0, resp |-> Unbound, ok |-> FALSE]

NoPacket == [version |-> 0, ip |-> 0, icmp |-> 0, flags |-> 0, payload |-> <<>>]

\* pmtud is not running
MtuUnused ==
  /\ lower = 0
  /\ upper = 0
  /\ retry = 0
  /\ dest_ip = <<>>
  /\ mid = 0
  /\ tries = 0
  /\ pkt = NoPacket
  /\ resp = Unbound
  /\ mtu = 0
  /\ net = [mode |-> "none", mtu |-> 0]
  /\ call0 = [lower |-> 0, upper |-> 0]
  /\ caller = NoCall

\* the state of ans_inv_from_eui64, untouched by everything else
euiVars == <<lines, v6_prefix, ansible_inv>>

\* the state of a script run, untouched while one address is exercised
scriptVars == <<args, idx, out, lines, v6_prefix, ansible_inv,
                lower, upper, retry, dest_ip, mid, tries, pkt, resp, mtu, net,
                call0, caller>>

NoRet == [ref |-> 0, val |-> 0, true |-> {}, str |-> <<>>]

Init ==
  /\ fam \in Families
  /\ \/ /\ inFields = <<>>
        /\ inputString = [isNone |-> TRUE, chars |-> <<>>]
     \/ \E first \in FirstFields(fam), rest \in RestFields(fam),
           n \in FieldCounts(fam) :
          \E last \in {rest, OverflowField(fam)} :
            /\ inFields = FieldList(first, rest, n, last)
            /\ inputString = [isNone |-> FALSE,
                              chars  |-> JoinFields(inFields, Delim(fam))]
  /\ inAddrLen \in AddrLens(fam)
  /\ pc = "new"
  /\ err = "none"
  /\ heap = <<>>
  /\ self = 0
  /\ op = "none"
  /\ arg = 0
  /\ ret = NoRet
  /\ pre = NoObject
  /\ netCalls = 0
  /\ args = <<>>
  /\ idx = 0
  /\ out = <<>>
  /\ lines = <<>>
  /\ v6_prefix = <<>>
  /\ ansible_inv = <<>>
  /\ MtuUnused

(***************************************************************************)
(* Operations.                                                             *)
(***************************************************************************)
\* IPv4Address(inputString, addrLen), IPv6Address(...), MACAddress(...)
Construct ==
  /\ pc = "new"
  /\ LET r == Construct_result(fam, inputString, inAddrLen)
     IN  /\ err' = r.err
         /\ IF r.err = "none"
            THEN /\ heap' = Append(heap, r.obj)
                 /\ self' = Len(heap) + 1
                 /\ pc' = "ready"
            ELSE /\ pc' = "failed"
                 /\ UNCHANGED <<heap, self>>
  /\ op' = "init"
  /\ UNCHANGED <<fam, inFields, inputString, inAddrLen, arg, ret, pre, netCalls>>
  /\ UNCHANGED scriptVars

\* prefix = address.getNetwork(): the object is changed in place and the
\* method returns the object it was called on
GetNetwork ==
  /\ pc = "ready"
  /\ netCalls < MaxNetCalls
  /\ pre' = heap[self]
  /\ heap' = [heap EXCEPT ![self] = getNetwork(heap[self])]
  /\ ret' = [NoRet EXCEPT !.ref = self]
  /\ op' = "getNetwork"
  /\ arg' = 0
  /\ netCalls' = netCalls + 1
  /\ UNCHANGED <<fam, inFields, inputString, inAddrLen, pc, err, self>>
  /\ UNCHANGED scriptVars

\* address.getOctet(i)
GetOctet ==
  /\ pc = "ready"
  /\ \E i \in OctetIndexes(__len__(heap[self])) :
       /\ arg' = i
       /\ ret' = [NoRet EXCEPT !.val = getOctet(heap[self], i)]
  /\ op' = "getOctet"
  /\ UNCHANGED <<fam, inFields, inputString, inAddrLen, pc, err, heap, self,
                 pre, netCalls>>
  /\ UNCHANGED scriptVars

\* the IPv4 class tests, all asked of the same address
ClassifyIPv4 ==
  /\ pc = "ready"
  /\ fam = "IPv4"
  /\ ret' = [NoRet EXCEPT !.true =
               {p \in {"isUnicast", "isMulticast", "isExperimental"} :
                  CASE p = "isUnicast"      -> IPv4_isUnicast(heap[self])
                    [] p = "isMulticast"    -> IPv4_isMulticast(heap[self])
                    [] p = "isExperimental" -> IPv4_isExperimental(heap[self])}]
  /\ op' = "classify"
  /\ arg' = 0
  /\ UNCHANGED <<fam, inFields, inputString, inAddrLen, pc, err, heap, self,
                 pre, netCalls>>
  /\ UNCHANGED scriptVars

\* isUnicast() and isMulticast() of an IPv6 or MAC address
Classify ==
  /\ pc = "ready"
  /\ fam \in {"IPv6", "MAC"}
  /\ ret' = [NoRet EXCEPT !.true =
               {p \in {"isUnicast", "isMulticast"} :
                  CASE p = "isUnicast"   -> isUnicast(heap[self])
                    [] p = "isMulticast" -> isMulticast(heap[self])}]
  /\ op' = "classify"
  /\ arg' = 0
  /\ UNCHANGED <<fam, inFields, inputString, inAddrLen, pc, err, heap, self,
                 pre, netCalls>>
  /\ UNCHANGED scriptVars

Next ==
  \/ Construct
  \/ GetNetwork
  \/ GetOctet
  \/ ClassifyIPv4
  \/ Classify

Spec == Init /\ [][Next]_vars

(***************************************************************************)
(* Queries on one address built with the default prefix length: string     *)
(* forms, a parse of the string form, and the family's extra predicates.   *)
(***************************************************************************)
\* the default of the addrLen parameter of each constructor
DefaultAddrLen(f) == CASE f = "IPv4" -> 32 [] f = "IPv6" -> 128 [] f = "MAC" -> 48

InitQuery ==
  /\ fam \in Families
  /\ \E first \in FirstFields(fam), rest \in RestFields(fam),
        last \in RestFields(fam) :
       /\ inFields = FieldList(first, rest, NumFields(fam), last)
       /\ inputString = [isNone |-> FALSE,
                         chars  |-> JoinFields(inFields, Delim(fam))]
  /\ inAddrLen = DefaultAddrLen(fam)
  /\ pc = "new"
  /\ err = "none"
  /\ heap = <<>>
  /\ self = 0
  /\ op = "none"
  /\ arg = 0
  /\ ret = NoRet
  /\ pre = NoObject
  /\ netCalls = 0
  /\ args = <<>>
  /\ idx = 0
  /\ out = <<>>
  /\ lines = <<>>
  /\ v6_prefix = <<>>
  /\ ansible_inv = <<>>
  /\ MtuUnused

\* address.toString(), str(address)
CallToString ==
  /\ pc = "ready"
  /\ ret' = [NoRet EXCEPT !.str = toString(heap[self])]
  /\ op' = "toString"
  /\ arg' = 0
  /\ UNCHANGED <<fam, inFields, inputString, inAddrLen, pc, err, heap, self,
                 pre, netCalls>>
  /\ UNCHANGED scriptVars

\* IPv4Address.toStringHex()
CallToStringHex ==
  /\ pc = "ready"
  /\ fam = "IPv4"
  /\ ret' = [NoRet EXCEPT !.str = IPv4_toStringHex(heap[self])]
  /\ op' = "toStringHex"
  /\ arg' = 0
  /\ UNCHANGED <<fam, inFields, inputString, inAddrLen, pc, err, heap, self,
                 pre, netCalls>>
  /\ UNCHANGED scriptVars

\* MACAddress.toStringCisco()
CallToStringCisco ==
  /\ pc = "ready"
  /\ fam = "MAC"
  /\ ret' = [NoRet EXCEPT !.str = toStringCisco(heap[self])]
  /\ op' = "toStringCisco"
  /\ arg' = 0
  /\ UNCHANGED <<fam, inFields, inputString, inAddrLen, pc, err, heap, self,
                 pre, netCalls>>
  /\ UNCHANGED scriptVars

\* the effect of parsing text, the string form of the object, into r
RoundTripStep(text, r) ==
  /\ err' = r.err
  /\ IF r.err = "none"
     THEN /\ heap' = Append(heap, r.obj)
          /\ ret' = [NoRet EXCEPT !.str = text, !.ref = Len(heap) + 1]
     ELSE /\ heap' = heap
          /\ ret' = [NoRet EXCEPT !.str = text]

RoundTripOf(text) ==
  RoundTripStep(text, Construct_result(fam, [isNone |-> FALSE, chars |-> text],
                                       DefaultAddrLen(fam)))

\* b = Class(a.toString()): a second object parsed from the string form of
\* the first
RoundTrip ==
  /\ pc = "ready"
  /\ Len(heap) = 1
  /\ RoundTripOf(toString(heap[self]))
  /\ op' = "roundTrip"
  /\ arg' = 0
  /\ UNCHANGED <<fam, inFields, inputString, inAddrLen, pc, self, pre, netCalls>>
  /\ UNCHANGED scriptVars

\* the bit tests and class tests of a MAC address
MACBits ==
  /\ pc = "ready"
  /\ fam = "MAC"
  /\ ret' = [NoRet EXCEPT !.true =
               {p \in {"isIGset", "isULset", "isUnicast", "isMulticast"} :
                  CASE p = "isIGset"     -> isIGset(heap[self])
                    [] p = "isULset"     -> isULset(heap[self])
                    [] p = "isUnicast"   -> MAC_isUnicast(heap[self])
                    [] p = "isMulticast" -> MAC_isMulticast(heap[self])}]
  /\ op' = "macBits"
  /\ arg' = 0
  /\ UNCHANGED <<fam, inFields, inputString, inAddrLen, pc, err, heap, self,
                 pre, netCalls>>
  /\ UNCHANGED scriptVars

\* the special-range tests of an IPv6 address
IPv6Ranges ==
  /\ pc = "ready"
  /\ fam = "IPv6"
  /\ ret' = [NoRet EXCEPT !.true =
               {p \in {"is6to4", "isLinkLocalAddress", "isUniqueLocalAddress"} :
                  CASE p = "is6to4"               -> is6to4(heap[self])
                    [] p = "isLinkLocalAddress"   -> IPv6_isLinkLocalAddress(heap[self])
                    [] p = "isUniqueLocalAddress" -> isUniqueLocalAddress(heap[self])}]
  /\ op' = "ipv6Ranges"
  /\ arg' = 0
  /\ UNCHANGED <<fam, inFields, inputString, inAddrLen, pc, err, heap, self,
                 pre, netCalls>>
  /\ UNCHANGED scriptVars

NextQuery ==
  \/ Construct
  \/ CallToString
  \/ CallToStringHex
  \/ CallToStringCisco
  \/ RoundTrip
  \/ MACBits
  \/ IPv6Ranges

SpecQuery == InitQuery /\ [][NextQuery]_vars

(***************************************************************************)
(* The scripts mip2mac.py and mip2mac6.py.  args is the argument list      *)
(* after the script name; each argument is kept with the fields it was     *)
(* written from.                                                           *)
(***************************************************************************)
\* arguments given to one script run
MaxArgs == 2

\* first octets of IPv4 arguments, around the multicast range
MipFirst4 ==
  { [s |-> <<"2", "2", "3">>, num |-> TRUE, v |-> 223],
    [s |-> <<"2", "2", "4">>, num |-> TRUE, v |-> 224],
    [s |-> <<"2", "3", "9">>, num |-> TRUE, v |-> 239],
    [s |-> <<"2", "4", "0">>, num |-> TRUE, v |-> 240] }

\* second octets of IPv4 arguments, on both sides of bit 7
MipSecond4 ==
  { [s |-> <<"1">>, num |-> TRUE, v |-> 1],
    [s |-> <<"1", "2", "9">>, num |-> TRUE, v |-> 129],
    [s |-> <<"2", "5", "5">>, num |-> TRUE, v |-> 255] }

\* third and fourth octets of IPv4 arguments
MipLast4 ==
  { <<[s |-> <<"1">>, num |-> TRUE, v |-> 1], [s |-> <<"1">>, num |-> TRUE, v |-> 1]>>,
    <<[s |-> <<"1", "7">>, num |-> TRUE, v |-> 17], [s |-> <<"2", "5", "5">>, num |-> TRUE, v |-> 255]>> }

\* first groups of IPv6 arguments, multicast or not
MipFirst6 ==
  { [s |-> <<"f", "f", "0", "2">>, num |-> TRUE, v |-> 65282],
    [s |-> <<"F", "F", "0", "5">>, num |-> TRUE, v |-> 65285],
    [s |-> <<"f", "e", "8", "0">>, num |-> TRUE, v |-> 65152] }

\* seventh groups of IPv6 arguments
MipSeventh6 ==
  { [s |-> <<"f", "f", "0", "0">>, num |-> TRUE, v |-> 65280],
    [s |-> <<"0", "1", "0", "2">>, num |-> TRUE, v |-> 258] }

\* eighth groups of IPv6 arguments
MipEighth6 ==
  { [s |-> <<"0", "0", "0", "1">>, num |-> TRUE, v |-> 1],
    [s |-> <<"a", "5", "5", "a">>, num |-> TRUE, v |-> 42330] }

\* an argument: the text and the fields it was written from
MkArg(fields, delim) ==
  [text   |-> [isNone |-> FALSE, chars |-> JoinFields(fields, delim)],
   fields |-> fields]

ZeroGroup == [s |-> <<"0", "0", "0", "0">>, num |-> TRUE, v |-> 0]

OneGroup == [s |-> <<"0", "0", "0", "1">>, num |-> TRUE, v |-> 1]

\* a text that is no address ("clown" in the tests)
ClownArg == MkArg(<<[s |-> <<"c", "l", "o", "w", "n">>, num |-> FALSE, v |-> 0]>>, ".")

MipArgs(f) ==
  IF f = "IPv4"
  THEN {MkArg(<<a, b, c[1], c[2]>>, ".") :
          a \in MipFirst4, b \in MipSecond4, c \in MipLast4} \cup {ClownArg}
  ELSE {MkArg(<<a, ZeroGroup, ZeroGroup, ZeroGroup, ZeroGroup, OneGroup, g, h>>, ":") :
          a \in MipFirst6, g \in MipSeventh6, h \in MipEighth6} \cup {ClownArg}

\* the argument lists tried
ArgLists(pool) == UNION {[1..n -> pool] : n \in 0..MaxArgs}

\* variant: the prefix 00:00:5E, with the I/G bit clear
mip2mac_macInputString_unicast(mip) ==
  <<"0", "0", ":", "0", "0", ":", "5", "E", ":">>
    \o HexOctet(getOctet(mip, 2) % 128)
    \o <<":">> \o HexOctet(getOctet(mip, 3))
    \o <<":">> \o HexOctet(getOctet(mip, 4))

\* variant: the first octet takes the place of the second
mip2mac_macInputString_first(mip) ==
  <<"0", "1", ":", "0", "0", ":", "5", "E", ":">>
    \o HexOctet(getOctet(mip, 1) % 128)
    \o <<":">> \o HexOctet(getOctet(mip, 3))
    \o <<":">> \o HexOctet(getOctet(mip, 4))

\* variant: the high bit of the second octet is kept
mip2mac_macInputString_keep(mip) ==
  <<"0", "1", ":", "0", "0", ":", "5", "E", ":">>
    \o HexOctet(getOctet(mip, 2))
    \o <<":">> \o HexOctet(getOctet(mip, 3))
    \o <<":">> \o HexOctet(getOctet(mip, 4))

\* mip2mac: the text handed to MACAddress
mip2mac_macInputString(mip) ==
  <<"0", "1", ":", "0", "0", ":", "5", "E", ":">>
    \o HexOctet(getOctet(mip, 2) % 128)
    \o <<":">> \o HexOctet(getOctet(mip, 3))
    \o <<":">> \o HexOctet(getOctet(mip, 4))

\* for i in range(13, 17): macInputString += ":" + hex octet i
RECURSIVE mip2mac6_loop(_, _, _, _)
mip2mac6_loop(mip, i, stop, macInputString) ==
  IF i >= stop THEN macInputString
  ELSE mip2mac6_loop(mip, i + 1, stop,
                     macInputString \o <<":">> \o HexOctet(getOctet(mip, i)))

\* variant: the range taken as 12..15
mip2mac6_macInputString_early(mip) == mip2mac6_loop(mip, 12, 16, <<"3", "3", ":", "3", "3">>)

\* mip2mac6: the text handed to MACAddress
mip2mac6_macInputString(mip) == mip2mac6_loop(mip, 13, 17, <<"3", "3", ":", "3", "3">>)

\* print(mac): the line printed for the MACAddress built, or its exception
MipPrint(mip, m) ==
  IF m.err # "none"
  THEN [err |-> m.err, objs |-> <<mip>>, printed |-> FALSE, line |-> <<>>]
  ELSE [err |-> "none", objs |-> <<mip, m.obj>>, printed |-> TRUE,
        line |-> toString(m.obj)]

\* the loop body once the argument has been parsed into r
MipConvert(f, r) ==
  IF r.err # "none"
  THEN [err |-> r.err, objs |-> <<>>, printed |-> FALSE, line |-> <<>>]
  ELSE IF ~isMulticast(r.obj)
  THEN [err |-> "none", objs |-> <<r.obj>>, printed |-> FALSE, line |-> <<>>]
  ELSE MipPrint(r.obj,
                MAC_init([isNone |-> FALSE,
                          chars  |-> IF f = "IPv4"
                                     THEN mip2mac_macInputString(r.obj)
                                     ELSE mip2mac6_macInputString(r.obj)],
                         48))

\* the body of the loop of either script on one argument: the exception it
\* raises, the objects it creates and the line it prints
MipBody(f, mipArg) ==
  MipConvert(f, Construct_result(f, mipArg, DefaultAddrLen(f)))

InitMip ==
  /\ fam \in {"IPv4", "IPv6"}
  /\ args \in ArgLists(MipArgs(fam))
  /\ idx = 0
  /\ out = <<>>
  /\ pc = "start"
  /\ err = "none"
  /\ heap = <<>>
  /\ inFields = <<>>
  /\ inputString = [isNone |-> TRUE, chars |-> <<>>]
  /\ inAddrLen = 0
  /\ self = 0
  /\ op = "none"
  /\ arg = 0
  /\ ret = NoRet
  /\ pre = NoObject
  /\ netCalls = 0
  /\ lines = <<>>
  /\ v6_prefix = <<>>
  /\ ansible_inv = <<>>
  /\ MtuUnused

addrVars == <<fam, inFields, inputString, inAddrLen, self, op, arg, ret, pre, netCalls>>

\* no argument after the script name: usage is printed, 1 is returned
MipUsage ==
  /\ pc = "start"
  /\ args = <<>>
  /\ pc' = "usage"
  /\ UNCHANGED <<err, heap, args, idx, out>>
  /\ UNCHANGED addrVars
  /\ UNCHANGED mtuVars
  /\ UNCHANGED euiVars

\* the effect of one loop body b on the run
MipStep(b) ==
  /\ err' = b.err
  /\ heap' = heap \o b.objs
  /\ IF b.err # "none"
     THEN pc' = "crashed" /\ UNCHANGED <<idx, out>>
     ELSE /\ pc' = "loop"
          /\ idx' = idx + 1
          /\ out' = IF b.printed
                    THEN Append(out, [src  |-> idx + 1,
                                      line |-> b.line,
                                      ref  |-> Len(heap) + 2])
                    ELSE out

\* one turn of the loop over the arguments
MipTurn ==
  /\ pc \in {"start", "loop"}
  /\ idx < Len(args)
  /\ MipStep(MipBody(fam, args[idx + 1].text))
  /\ UNCHANGED args
  /\ UNCHANGED addrVars
  /\ UNCHANGED mtuVars
  /\ UNCHANGED euiVars

\* python mip2mac.py mip1 mip2 ...
Mip2mac == fam = "IPv4" /\ MipTurn

\* python mip2mac6.py mip1 mip2 ...
Mip2mac6 == fam = "IPv6" /\ MipTurn

\* the loop is over: the script returns
MipReturn ==
  /\ pc = "loop"
  /\ idx = Len(args)
  /\ pc' = "done"
  /\ UNCHANGED <<err, heap, args, idx, out>>
  /\ UNCHANGED addrVars
  /\ UNCHANGED mtuVars
  /\ UNCHANGED euiVars

NextMip ==
  \/ MipUsage
  \/ Mip2mac
  \/ Mip2mac6
  \/ MipReturn

SpecMip == InitMip /\ [][NextMip]_vars

(***************************************************************************)
(* ans_inv_from_eui64.py: MAC addresses to Modified EUI-64 addresses.      *)
(***************************************************************************)
\* number of lines of input_macs.txt
MaxLines == 2

\* str.lower() of one character and of a text
LowerOf(c) ==
  CASE c = "A" -> "a" [] c = "B" -> "b" [] c = "C" -> "c"
    [] c = "D" -> "d" [] c = "E" -> "e" [] c = "F" -> "f"
    [] OTHER -> c

PyLower(s) == [i \in 1..Len(s) |-> LowerOf(s[i])]

\* str.strip(): leading and trailing whitespace removed
Whitespace == {" ", "\n", "\t", "\r"}

RECURSIVE PyStrip(_)
PyStrip(s) ==
  IF s = <<>> THEN s
  ELSE IF s[1] \in Whitespace THEN PyStrip(Tail(s))
  ELSE IF s[Len(s)] \in Whitespace THEN PyStrip(SubSeq(s, 1, Len(s) - 1))
  ELSE s

\* s.replace(delim, "") for a one-character delim
RemoveDelim(s, delim) == SelectSeq(s, LAMBDA c : c # delim)

\* mac = line.strip().lower(), then every "-", ":" and "." removed
CleanLine(line) ==
  RemoveDelim(RemoveDelim(RemoveDelim(PyLower(PyStrip(line)), "-"), ":"), ".")

\* int(s, base) > 0, decided on the digits (the value of 12 hex digits is
\* wider than the checker's integers): ValueError as int() raises it,
\* otherwise true when the sign is not "-" and some digit is not zero
PyIntPositive(s, base) ==
  LET signed == s # <<>> /\ s[1] \in {"-", "+"}
      body   == IF signed THEN Tail(s) ELSE s
  IN  IF body = <<>> \/ \E i \in 1..Len(body) : ~IsDigit(body[i], base)
      THEN [err |-> "ValueError", val |-> FALSE]
      ELSE [err |-> "none",
            val |-> s[1] # "-" /\ \E i \in 1..Len(body) : DigitVal[body[i]] # 0]

\* is_valid_mac(mac): the three tests of the return statement, left to
\* right, each one reached only when the one before it is true
is_valid_mac(mac) ==
  IF Len(mac) # 12 THEN [err |-> "none", val |-> FALSE]
  ELSE LET whole == PyIntPositive(mac, 16)
       IN  IF whole.err # "none" THEN [err |-> whole.err, val |-> FALSE]
           ELSE IF ~whole.val THEN [err |-> "none", val |-> FALSE]
           ELSE LET second == PyInt(<<mac[2]>>, 16)
                IN  IF second.err # "none"
                    THEN [err |-> second.err, val |-> FALSE]
                    ELSE [err |-> "none", val |-> BitAnd(second.val, 1) = 0]

\* s[a:b] with 0-based bounds inside the text
PySlice(s, a, b) == SubSeq(s, a + 1, b)

\* host_addr = f"{mac[:4]}:{mac[4:6]}ff:fe{mac[6:8]}:{mac[8:]}"
host_addr(mac) ==
  PySlice(mac, 0, 4) \o <<":">> \o PySlice(mac, 4, 6) \o <<"f", "f", ":", "f", "e">>
    \o PySlice(mac, 6, 8) \o <<":">> \o PySliceFrom(mac, 8)

\* flip = hex(int(host_addr[1], 16) ^ 2)[-1]
flip(host) ==
  LET h == PyHex(BitXor(PyInt(<<host[2]>>, 16).val, 2))
  IN  h[Len(h)]

\* eui64_addr = f"{v6_prefix}{host_addr[:1]}{flip}{host_addr[2:]}"
eui64_addr(prefix, mac) ==
  LET host == host_addr(mac)
  IN  prefix \o PySlice(host, 0, 1) \o <<flip(host)>> \o PySliceFrom(host, 2)

\* dict.update({key: value}) on a dict kept in insertion order
DictUpdate(d, key, value) ==
  IF \E i \in 1..Len(d) : d[i].key = key
  THEN [i \in 1..Len(d) |-> IF d[i].key = key THEN [key |-> key, value |-> value]
                             ELSE d[i]]
  ELSE Append(d, [key |-> key, value |-> value])

\* lines of input_macs.txt: the text and, when the line was written from
\* six bytes as hex digits, those bytes
EuiLines ==
  { [chars |-> <<"0","0",":","1","1",":","2","2",":","3","3",":","4","4",":","5","5","\n">>,
     bytes |-> <<0, 17, 34, 51, 68, 85>>],
    [chars |-> <<"A","A","-","B","B","-","C","C","-","D","D","-","E","E","-","F","F","\n">>,
     bytes |-> <<170, 187, 204, 221, 238, 255>>],
    [chars |-> <<" ","0","2","1","1",".","2","2","3","3",".","4","4","5","5">>,
     bytes |-> <<2, 17, 34, 51, 68, 85>>],
    [chars |-> <<"0","1",":","1","1",":","2","2",":","3","3",":","4","4",":","5","5","\n">>,
     bytes |-> <<1, 17, 34, 51, 68, 85>>],
    [chars |-> <<"0","0",":","0","0",":","0","0",":","0","0",":","0","0",":","0","0","\n">>,
     bytes |-> <<0, 0, 0, 0, 0, 0>>],
    [chars |-> <<"0","0",":","1","1",":","2","2",":","3","3",":","4","4","\n">>,
     bytes |-> <<>>],
    [chars |-> <<"0","0",":","1","1",":","2","2",":","3","3",":","4","4",":","5","g","\n">>,
     bytes |-> <<>>],
    [chars |-> <<"+","0",":","1","1",":","2","2",":","3","3",":","4","4",":","5","5","\n">>,
     bytes |-> <<>>],
    [chars |-> <<"\n">>,
     bytes |-> <<>>] }

\* main("2001:db8::") when no prefix is given on the command line
DefaultPrefix ==
  [chars  |-> <<"2","0","0","1",":","d","b","8",":",":">>,
   groups |-> <<8193, 3512, 0, 0>>]

\* sys.argv[1]: the text and the four 16-bit groups of the 64-bit prefix
PrefixArgs ==
  { [chars  |-> <<"F","E","8","0",":",":">>,
     groups |-> <<65152, 0, 0, 0>>],
    [chars  |-> <<"2","0","0","1",":","d","b","8",":","1",":","2",":",":">>,
     groups |-> <<8193, 3512, 1, 2>>],
    [chars  |-> <<"2","0","0","1",":","d","b","8",":","1",":","2",":">>,
     groups |-> <<8193, 3512, 1, 2>>] }

LineLists == UNION {[1..n -> EuiLines] : n \in 0..MaxLines}

\* entry of main(v6_prefix), input_macs.txt read
InitEui ==
  /\ lines \in LineLists
  /\ \/ v6_prefix = DefaultPrefix
     \/ \E a \in PrefixArgs :
          v6_prefix = [chars |-> PyLower(a.chars), groups |-> a.groups]
  /\ ansible_inv = <<>>
  /\ idx = 0
  /\ out = <<>>
  /\ pc = "loop"
  /\ err = "none"
  /\ heap = <<>>
  /\ args = <<>>
  /\ fam = "MAC"
  /\ inFields = <<>>
  /\ inputString = [isNone |-> TRUE, chars |-> <<>>]
  /\ inAddrLen = 0
  /\ self = 0
  /\ op = "none"
  /\ arg = 0
  /\ ret = NoRet
  /\ pre = NoObject
  /\ netCalls = 0
  /\ MtuUnused

\* variant: the 0-based index taken as it is
node_number_zeroBased(index) == index

\* f"node_{index + 1}": the number in the host name of the line at index
node_number(index) == index + 1

\* one turn of the loop over the lines; index is idx, 0-based
EuiTurn ==
  /\ pc = "loop"
  /\ idx < Len(lines)
  /\ LET mac   == CleanLine(lines[idx + 1].chars)
         valid == is_valid_mac(mac)
     IN  /\ err' = valid.err
         /\ IF valid.err # "none"
            THEN pc' = "crashed" /\ UNCHANGED <<idx, out, ansible_inv>>
            ELSE /\ pc' = "loop"
                 /\ idx' = idx + 1
                 /\ IF ~valid.val
                    THEN UNCHANGED <<out, ansible_inv>>
                    ELSE LET addr == eui64_addr(v6_prefix.chars, mac)
                         IN  /\ out' = Append(out, [src  |-> idx + 1,
                                                    mac  |-> mac,
                                                    addr |-> addr])
                             /\ ansible_inv' =
                                  DictUpdate(ansible_inv, node_number(idx),
                                             [ansible_host |-> addr,
                                              original_mac |-> mac])
  /\ UNCHANGED <<lines, v6_prefix, heap, args>>
  /\ UNCHANGED addrVars
  /\ UNCHANGED mtuVars

\* the loop is over: the inventory is dumped to eui64_hosts.yml
EuiDump ==
  /\ pc = "loop"
  /\ idx = Len(lines)
  /\ pc' = "done"
  /\ UNCHANGED <<err, heap, args, idx, out>>
  /\ UNCHANGED addrVars
  /\ UNCHANGED mtuVars
  /\ UNCHANGED euiVars

NextEui ==
  \/ EuiTurn
  \/ EuiDump

SpecEui == InitEui /\ [][NextEui]_vars

(***************************************************************************)
(* Single calls on one address built with the default prefix length:       *)
(* IPv4Address.isPrivateAddress() and NetAddress._setOctet().              *)
(***************************************************************************)
\* _setOctet() calls made on one object
MaxSetCalls == 1

\* first and second octets of IPv4 texts, on and beside the private ranges
PrivFirst4 ==
  { [s |-> <<"1", "0">>, num |-> TRUE, v |-> 10],
    [s |-> <<"1", "1">>, num |-> TRUE, v |-> 11],
    [s |-> <<"1", "7", "2">>, num |-> TRUE, v |-> 172],
    [s |-> <<"1", "7", "3">>, num |-> TRUE, v |-> 173],
    [s |-> <<"1", "9", "2">>, num |-> TRUE, v |-> 192],
    [s |-> <<"1", "9", "3">>, num |-> TRUE, v |-> 193],
    [s |-> <<"2", "3", "9">>, num |-> TRUE, v |-> 239] }

PrivSecond4 ==
  { [s |-> <<"1", "5">>, num |-> TRUE, v |-> 15],
    [s |-> <<"1", "6">>, num |-> TRUE, v |-> 16],
    [s |-> <<"3", "1">>, num |-> TRUE, v |-> 31],
    [s |-> <<"3", "2">>, num |-> TRUE, v |-> 32],
    [s |-> <<"1", "6", "7">>, num |-> TRUE, v |-> 167],
    [s |-> <<"1", "6", "8">>, num |-> TRUE, v |-> 168],
    [s |-> <<"1", "6", "9">>, num |-> TRUE, v |-> 169] }

\* the texts the objects are built from: IPv4 over the private ranges, and
\* one MAC and one IPv6 address
UnitFields(f) ==
  CASE f = "IPv4" ->
         { <<a, b, [s |-> <<"0">>, num |-> TRUE, v |-> 0],
                   [s |-> <<"1">>, num |-> TRUE, v |-> 1]>> :
             a \in PrivFirst4, b \in PrivSecond4 }
    [] f = "MAC" ->
         { << [s |-> <<"0", "0">>, num |-> TRUE, v |-> 0],
              [s |-> <<"0", "0">>, num |-> TRUE, v |-> 0],
              [s |-> <<"5", "e">>, num |-> TRUE, v |-> 94],
              [s |-> <<"1", "2">>, num |-> TRUE, v |-> 18],
              [s |-> <<"3", "4">>, num |-> TRUE, v |-> 52],
              [s |-> <<"5", "6">>, num |-> TRUE, v |-> 86] >> }
    [] f = "IPv6" ->
         { << [s |-> <<"f", "e", "8", "0">>, num |-> TRUE, v |-> 65152],
              ZeroGroup, ZeroGroup, ZeroGroup, ZeroGroup, ZeroGroup, ZeroGroup,
              OneGroup >> }

\* values handed to _setOctet, inside and outside 0..255
SetValues == {-1, 0, 7, 255, 256}

InitUnit ==
  /\ fam \in Families
  /\ inFields \in UnitFields(fam)
  /\ inputString = [isNone |-> FALSE, chars |-> JoinFields(inFields, Delim(fam))]
  /\ inAddrLen = DefaultAddrLen(fam)
  /\ pc = "new"
  /\ err = "none"
  /\ heap = <<>>
  /\ self = 0
  /\ op = "none"
  /\ arg = 0
  /\ ret = NoRet
  /\ pre = NoObject
  /\ netCalls = 0
  /\ args = <<>>
  /\ idx = 0
  /\ out = <<>>
  /\ lines = <<>>
  /\ v6_prefix = <<>>
  /\ ansible_inv = <<>>
  /\ MtuUnused

\* address.isPrivateAddress() on an IPv4Address
CallIsPrivateAddress ==
  /\ pc = "ready"
  /\ fam = "IPv4"
  /\ ret' = [NoRet EXCEPT !.true =
               IF IPv4_isPrivateAddress(heap[self]) THEN {"isPrivateAddress"}
               ELSE {}]
  /\ op' = "isPrivateAddress"
  /\ arg' = 0
  /\ UNCHANGED <<fam, inFields, inputString, inAddrLen, pc, err, heap, self,
                 pre, netCalls>>
  /\ UNCHANGED scriptVars

\* address._setOctet(octet, value); pre keeps the object as it was
CallSetOctet ==
  /\ pc = "ready"
  /\ netCalls < MaxSetCalls
  /\ \E octet \in OctetIndexes(Len(heap[self]._octet)), value \in SetValues :
       /\ pre' = heap[self]
       /\ heap' = [heap EXCEPT ![self] = _setOctet(heap[self], octet, value)]
       /\ arg' = <<octet, value>>
  /\ err' = "none"
  /\ ret' = NoRet
  /\ op' = "_setOctet"
  /\ netCalls' = netCalls + 1
  /\ UNCHANGED <<fam, inFields, inputString, inAddrLen, pc, self>>
  /\ UNCHANGED scriptVars

NextUnit ==
  \/ Construct
  \/ CallIsPrivateAddress
  \/ CallSetOctet

SpecUnit == InitUnit /\ [][NextUnit]_vars

(***************************************************************************)
(* pmtud.py: find_mtu(lower, upper, retry, timeout, dest_ip).  The         *)
(* recursion is a tail call, so one set of locals stands for the current   *)
(* call; timeout only bounds the wait of sr1() and is left out.            *)
(***************************************************************************)
\* sizes tried for lower and upper: from MtuBelow under the smallest packet
\* of the family (28 or 48 bytes) to MtuAbove over it
MtuBelow == 2

MtuAbove == 4

\* largest value of retry
MaxRetry == 2

\* the targets: the default of --dest_ip, and an IPv6 address
DestIps ==
  { <<"8", ".", "8", ".", "8", ".", "8">>,
    <<"2", "0", "0", "1", ":", "d", "b", "8", ":", ":", "1">> }

\* length of the packet with no payload: 20 + 8 or 40 + 8
HeaderLen(dest) == PktLen(PingPacket(dest, 0))

ProbeSizes(dest) == (HeaderLen(dest) - MtuBelow)..(HeaderLen(dest) + MtuAbove)

Networks(dest) ==
  {[mode |-> "any", mtu |-> 0]}
    \cup {[mode |-> "path", mtu |-> m] :
            m \in (HeaderLen(dest) - MtuBelow - 1)..(HeaderLen(dest) + MtuAbove + 1)}

\* mtu = find_mtu(**dict_args) is about to be called
InitMtu ==
  /\ dest_ip \in DestIps
  /\ lower \in ProbeSizes(dest_ip)
  /\ upper \in ProbeSizes(dest_ip)
  /\ retry \in 0..MaxRetry
  /\ net \in Networks(dest_ip)
  /\ call0 = [lower |-> lower, upper |-> upper]
  /\ caller = NoCall
  /\ mid = 0
  /\ tries = 0
  /\ pkt = NoPacket
  /\ resp = Unbound
  /\ mtu = 0
  /\ pc = "call"
  /\ err = "none"
  /\ heap = <<>>
  /\ args = <<>>
  /\ idx = 0
  /\ out = <<>>
  /\ lines = <<>>
  /\ v6_prefix = <<>>
  /\ ansible_inv = <<>>
  /\ fam = "IPv4"
  /\ inFields = <<>>
  /\ inputString = [isNone |-> TRUE, chars |-> <<>>]
  /\ inAddrLen = 0
  /\ self = 0
  /\ op = "none"
  /\ arg = 0
  /\ ret = NoRet
  /\ pre = NoObject
  /\ netCalls = 0

\* what find_mtu never touches
mtuFrame == <<heap, args, idx, out, lines, v6_prefix, ansible_inv>>

\* entry of a call: the base case returns upper, otherwise the midpoint is
\* computed and the probe loop begins (it has no turn when retry < 1)
MtuEntry ==
  /\ pc = "call"
  /\ IF upper < lower
     THEN /\ mtu' = upper
          /\ pc' = "done"
          /\ UNCHANGED <<mid, tries, resp>>
     ELSE /\ mid' = Midpoint(lower, upper)
          /\ tries' = 0
          /\ resp' = Unbound
          /\ pc' = IF retry > 0 THEN "probe" ELSE "classify"
          /\ UNCHANGED mtu
  /\ UNCHANGED <<lower, upper, retry, dest_ip, pkt, net, call0, caller, err>>
  /\ UNCHANGED mtuFrame
  /\ UNCHANGED addrVars

\* one turn of `for _ in range(retry)`: build the packet, send it, wait for
\* one answer, leave the loop on an answer or after the last turn
MtuProbe ==
  /\ pc = "probe"
  /\ pkt' = _make_ping(dest_ip, mid).pkt
  /\ err' = _make_ping(dest_ip, mid).err
  /\ IF _make_ping(dest_ip, mid).err # "none"
     THEN /\ pc' = "crashed"
          /\ UNCHANGED <<tries, resp>>
     ELSE \E r \in Answers(net, dest_ip, PktLen(_make_ping(dest_ip, mid).pkt)) :
            /\ resp' = r
            /\ tries' = tries + 1
            /\ pc' = IF r.kind # "None" \/ tries + 1 >= retry
                     THEN "classify" ELSE "probe"
  /\ UNCHANGED <<lower, upper, retry, dest_ip, mid, mtu, net, call0, caller>>
  /\ UNCHANGED mtuFrame
  /\ UNCHANGED addrVars

\* after the loop: `resp is not None and _is_icmp_echo_reply(resp)` decides
\* which recursive call is made; reading an unassigned resp raises
MtuClassify ==
  /\ pc = "classify"
  /\ IF resp.kind = "unbound"
     THEN /\ err' = "UnboundLocalError"
          /\ pc' = "crashed"
          /\ UNCHANGED <<lower, upper, caller>>
     ELSE IF resp.kind # "None" /\ _is_icmp_echo_reply(resp).err # "none"
     THEN /\ err' = _is_icmp_echo_reply(resp).err
          /\ pc' = "crashed"
          /\ UNCHANGED <<lower, upper, caller>>
     ELSE /\ err' = "none"
          /\ pc' = "call"
          /\ IF resp.kind # "None" /\ _is_icmp_echo_reply(resp).val
             THEN /\ lower' = OkLower(mid)
                  /\ upper' = upper
                  /\ caller' = [lower |-> lower, upper |-> upper, mid |-> mid,
                                resp |-> resp, ok |-> TRUE]
             ELSE /\ lower' = lower
                  /\ upper' = FailUpper(mid)
                  /\ caller' = [lower |-> lower, upper |-> upper, mid |-> mid,
                                resp |-> resp, ok |-> FALSE]
  /\ UNCHANGED <<retry, dest_ip, mid, tries, pkt, resp, mtu, net, call0>>
  /\ UNCHANGED mtuFrame
  /\ UNCHANGED addrVars

NextMtu ==
  \/ MtuEntry
  \/ MtuProbe
  \/ MtuClassify

\* the interpreter keeps running the call: a step that can be taken is taken
SpecMtu == InitMtu /\ [][NextMtu]_vars /\ WF_vars(NextMtu)

(***************************************************************************)
(* What the input text denotes, read off the fields it was written from.   *)
(***************************************************************************)
TextAbsentOrEmpty == inputString.isNone \/ inputString.chars = <<>>

WrongFieldCount == Len(inFields) # NumFields(fam)

SomeFieldNotNumeric == \E k \in 1..Len(inFields) : ~inFields[k].num

SomeFieldOutOfRange ==
  \E k \in 1..Len(inFields) :
    inFields[k].num /\ (inFields[k].v < 0 \/ inFields[k].v > MaxField(fam))

BadText ==
  TextAbsentOrEmpty \/ WrongFieldCount \/ SomeFieldNotNumeric
    \/ SomeFieldOutOfRange

AddrLenInRange == inAddrLen >= 0 /\ inAddrLen <= MaxAddrLen(fam)

\* bit k (1 = first transmitted, high bit of octet 1) of an octet list
Bit(octets, k) ==
  (octets[((k - 1) \div 8) + 1] \div Pow2(7 - ((k - 1) % 8))) % 2

(***************************************************************************)
(* C1: getNetwork() never mutates the address it is called on: when it     *)
(* returns, the octets and the prefix length of the address are what they  *)
(* were before the call, and the returned address is another object than   *)
(* the one the method was called on.                                       *)
(***************************************************************************)
C1_GetNetworkLeavesSelf ==
  op = "getNetwork" => (heap[self] = pre /\ ret.ref # self)

(***************************************************************************)
(* C2: address invariant: every constructed address, also after any        *)
(* number of getNetwork() calls, has exactly the family's number of        *)
(* octets (6, 4, 16), every octet in 0..255 and a prefix length between 0  *)
(* and the family maximum (48, 32, 128).                                   *)
(***************************************************************************)
C2_AddressInvariant ==
  pc = "ready" =>
    /\ Len(heap[self]._octet) = NumOctets(fam)
    /\ \A i \in 1..Len(heap[self]._octet) : heap[self]._octet[i] \in 0..255
    /\ heap[self]._addrLen >= 0
    /\ heap[self]._addrLen <= MaxAddrLen(fam)

C2_Witness ==
  /\ pc = "ready"
  /\ netCalls >= 2
  /\ fam = "IPv6"
  /\ heap[self]._octet[1] = 254
  /\ heap[self]._octet[16] = 0

(***************************************************************************)
(* C3: getNetwork() returns the address whose first p bits are those of    *)
(* the input and whose other bits are zero, p being the prefix length:     *)
(* the last (host_len div 8) octets are zero and the octet on the boundary *)
(* is the input's ANDed with ((1 << (host_len mod 8)) - 1) XOR 0xFF.  With *)
(* p the family maximum the result equals the input, with p = 0 it is all  *)
(* zeros.                                                                  *)
(***************************************************************************)
C3_NetworkBits ==
  op = "getNetwork" =>
    LET res     == heap[ret.ref]
        p       == pre._addrLen
        len     == Len(pre._octet)
        hostLen == MaxAddrLen(fam) - p
        cleared == hostLen \div 8
    IN  /\ res._addrLen = p
        /\ Len(res._octet) = len
        /\ \A k \in 1..MaxAddrLen(fam) :
             Bit(res._octet, k) = IF k <= p THEN Bit(pre._octet, k) ELSE 0
        /\ \A i \in 1..len :
             res._octet[i] =
               IF i > len - cleared THEN 0
               ELSE IF i = len - cleared
               THEN BitAnd(pre._octet[i], BitXor(Pow2(hostLen % 8) - 1, 255))
               ELSE pre._octet[i]
        /\ (p = MaxAddrLen(fam) => res._octet = pre._octet)
        /\ (p = 0 => \A i \in 1..len : res._octet[i] = 0)

C3_Witness ==
  /\ op = "getNetwork"
  /\ netCalls = 1
  /\ fam = "IPv4"
  /\ pre._addrLen = 28
  /\ pre._octet = <<20, 68, 68, 68>>
  /\ heap[ret.ref]._octet = <<20, 68, 68, 64>>

(***************************************************************************)
(* C4: getNetwork() is idempotent: called on the result of getNetwork(),   *)
(* it yields the octets and the prefix length that result already has.     *)
(***************************************************************************)
C4_Idempotent ==
  (op = "getNetwork" /\ netCalls >= 2) => heap[ret.ref] = pre

C4_Witness ==
  /\ op = "getNetwork"
  /\ netCalls >= 2
  /\ fam = "MAC"
  /\ heap[ret.ref]._addrLen = 43
  /\ inFields[6].v = 255
  /\ heap[ret.ref]._octet[6] = 224

(***************************************************************************)
(* C5: construction fails with an error and produces no address whenever   *)
(* the text is absent or empty, does not split into exactly the family's   *)
(* number of fields, has a field that is not a number of the family's      *)
(* base, or has a field outside the family's range; it succeeds for every  *)
(* text that passes these four checks (the prefix length being valid).     *)
(***************************************************************************)
C5_ParseRejectsBadText ==
  pc # "new" =>
    /\ BadText => (err # "none" /\ pc = "failed" /\ heap = <<>> /\ self = 0)
    /\ (~BadText /\ AddrLenInRange) =>
         (err = "none" /\ pc = "ready" /\ self # 0)

C5_Witness ==
  /\ pc = "failed"
  /\ err = "ValueError"
  /\ fam = "IPv4"
  /\ AddrLenInRange
  /\ inputString.chars = <<"2", "0", ".", "6", "8", ".", "6", "8", ".", "2", "5", "6">>

(***************************************************************************)
(* C6: constructing an address with a prefix length below 0 or above the   *)
(* family maximum fails with a ValueError whatever the text is, and the    *)
(* constructor does not fail on a prefix length between 0 and the maximum. *)
(***************************************************************************)
C6_PrefixLenValueError ==
  pc # "new" =>
    /\ ~AddrLenInRange => err = "ValueError"
    /\ (AddrLenInRange /\ ~BadText) => err = "none"

(***************************************************************************)
(* C7: getOctet(i) is 1-based and never raises: for 1 <= i <= len it       *)
(* returns the i-th octet in the order of the text, a value in 0..255;     *)
(* for every other i, 0 and len+1 included, it returns -1.                 *)
(***************************************************************************)
C7_GetOctet ==
  op = "getOctet" =>
    IF arg >= 1 /\ arg <= NumOctets(fam)
    THEN /\ ret.val = heap[self]._octet[arg]
         /\ ret.val \in 0..255
         /\ (netCalls = 0 /\ fam # "IPv6") => ret.val = inFields[arg].v
    ELSE ret.val = -1

C7_Witness ==
  /\ op = "getOctet"
  /\ fam = "IPv4"
  /\ netCalls = 0
  /\ arg = 1
  /\ ret.val = 223
  /\ heap[self]._octet[2] = 68

C11_TestUnicastRange ==
  op = "classify" =>
    LET o == heap[self]._octet[1]
    IN  /\ fam = "IPv4" => (("isUnicast" \in ret.true) <=> (o >= 1 /\ o <= 223))
        /\ fam = "IPv6" => (("isUnicast" \in ret.true) <=> (o >= 1 /\ o <= 254))

(***************************************************************************)
(* C17: round trip: parsing the default string form of a valid address     *)
(* gives an address with the same octets, octet for octet.                 *)
(***************************************************************************)
C17_RoundTrip ==
  op = "roundTrip" =>
    /\ err = "none"
    /\ ret.ref # 0
    /\ heap[ret.ref]._octet = heap[self]._octet

C17_Witness ==
  /\ op = "roundTrip"
  /\ fam = "IPv6"
  /\ ret.ref = 2
  /\ heap[self]._octet[1] = 0
  /\ heap[self]._octet[2] = 0
  /\ heap[self]._octet[3] = 165
  /\ heap[self]._octet[16] = 255

(***************************************************************************)
(* C18: the string forms decode back to the octets.  IPv4 toString() is    *)
(* 4 decimal fields joined by '.', toStringHex() is '0x' and 8 hex digits; *)
(* MAC toString() is 6 two-hex-digit fields joined by ':', toStringCisco() *)
(* is 3 four-hex-digit groups joined by '.'; IPv6 toString() is 8          *)
(* four-hex-digit groups joined by ':' (so no '::'); field k of each form  *)
(* decodes to the octet, or the pair of octets, at position k.             *)
(***************************************************************************)
\* s is n digits of the base and denotes v
DecodesTo(s, n, base, v) ==
  /\ Len(s) = n
  /\ \A i \in 1..Len(s) : IsDigit(s[i], base)
  /\ DigitsValue(s, base) = v

C18_StringForms ==
  LET o == heap[self]._octet
      pair(k) == o[2 * k - 1] * 256 + o[2 * k]
  IN  /\ (op = "toString" /\ fam = "IPv4") =>
           LET f == PySplit(ret.str, ".")
           IN  /\ Len(f) = 4
               /\ \A k \in 1..4 : /\ DecodesTo(f[k], Len(f[k]), 10, o[k])
                                  /\ Len(f[k]) >= 1
                                  /\ o[k] = inFields[k].v
      /\ op = "toStringHex" =>
           /\ Len(ret.str) = 10
           /\ SubSeq(ret.str, 1, 2) = <<"0", "x">>
           /\ \A k \in 1..4 :
                DecodesTo(SubSeq(ret.str, 2 * k + 1, 2 * k + 2), 2, 16, o[k])
      /\ (op = "toString" /\ fam = "MAC") =>
           LET f == PySplit(ret.str, ":")
           IN  /\ Len(f) = 6
               /\ \A k \in 1..6 : /\ DecodesTo(f[k], 2, 16, o[k])
                                  /\ o[k] = inFields[k].v
      /\ op = "toStringCisco" =>
           LET f == PySplit(ret.str, ".")
           IN  /\ Len(f) = 3
               /\ \A k \in 1..3 : DecodesTo(f[k], 4, 16, pair(k))
      /\ (op = "toString" /\ fam = "IPv6") =>
           LET f == PySplit(ret.str, ":")
           IN  /\ Len(f) = 8
               /\ \A k \in 1..8 : /\ DecodesTo(f[k], 4, 16, pair(k))
                                  /\ pair(k) = inFields[k].v

C18_Witness ==
  /\ op = "toString"
  /\ fam = "IPv6"
  /\ ret.str = <<"f","e","8","0",":","0","0","0","0",":","0","0","0","0",":",
                 "0","0","0","0",":","0","0","0","0",":","0","0","0","0",":",
                 "0","0","0","0",":","a","5","5","a">>

(***************************************************************************)
(* C19: MAC bit predicates: with o the first octet, isIGset() is true iff  *)
(* o AND 1 = 1, isULset() iff o AND 2 = 2, isMulticast() equals isIGset()  *)
(* and isUnicast() is its negation.                                        *)
(***************************************************************************)
C19_MACBits ==
  op = "macBits" =>
    LET o == inFields[1].v
    IN  /\ ("isIGset" \in ret.true) <=> (o % 2 = 1)
        /\ ("isULset" \in ret.true) <=> ((o \div 2) % 2 = 1)
        /\ ("isMulticast" \in ret.true) <=> ("isIGset" \in ret.true)
        /\ ("isUnicast" \in ret.true) <=> ~("isIGset" \in ret.true)

C19_Witness ==
  /\ op = "macBits"
  /\ inFields[1].v = 254
  /\ ret.true = {"isULset", "isUnicast"}

ArgIsAddress(k) ==
  /\ Len(args[k].fields) = NumFields(fam)
  /\ \A i \in 1..Len(args[k].fields) :
       /\ args[k].fields[i].num
       /\ args[k].fields[i].v >= 0
       /\ args[k].fields[i].v <= MaxField(fam)

\* argument k is a multicast address: 224.0.0.0/4 or ff00::/8
ArgIsMulticast(k) ==
  /\ ArgIsAddress(k)
  /\ IF fam = "IPv4"
     THEN args[k].fields[1].v >= 224 /\ args[k].fields[1].v <= 239
     ELSE args[k].fields[1].v \div 256 = 255

\* the arguments the loop has consumed
Consumed == 1..idx

\* the text is six two-digit hex fields joined by ':' that denote octets
PrintsOctets(line, octets) ==
  LET f == PySplit(line, ":")
  IN  /\ Len(f) = 6
      /\ \A i \in 1..6 : DecodesTo(f[i], 2, 16, octets[i])

(***************************************************************************)
(* C12: IPv4 multicast to MAC: for every multicast argument o1.o2.o3.o4    *)
(* mip2mac derives the MAC with octets 01:00:5E:(o2 mod 128):o3:o4;        *)
(* 239.1.1.1 gives 01:00:5E:01:01:01.                                      *)
(***************************************************************************)
C12_Mip2mac ==
  fam = "IPv4" =>
    /\ \A k \in Consumed :
         ArgIsMulticast(k) => \E j \in 1..Len(out) : out[j].src = k
    /\ \A j \in 1..Len(out) :
         LET f        == args[out[j].src].fields
             expected == <<1, 0, 94, f[2].v % 128, f[3].v, f[4].v>>
         IN  /\ ArgIsMulticast(out[j].src)
             /\ heap[out[j].ref].fam = "MAC"
             /\ heap[out[j].ref]._octet = expected
             /\ PrintsOctets(out[j].line, expected)

C12_Witness ==
  /\ fam = "IPv4"
  /\ pc = "done"
  /\ Len(out) = 2
  /\ args[out[1].src].text.chars = <<"2","3","9",".","1",".","1",".","1">>
  /\ out[1].line = <<"0","1",":","0","0",":","5","e",":","0","1",":","0","1",":","0","1">>
  /\ args[out[2].src].text.chars = <<"2","2","4",".","2","5","5",".","1","7",".","2","5","5">>
  /\ heap[out[2].ref]._octet = <<1, 0, 94, 127, 17, 255>>

(***************************************************************************)
(* C13: IPv6 multicast to MAC: for every multicast argument mip2mac6       *)
(* derives the MAC with octets 33:33:o13:o14:o15:o16, the low-order 32     *)
(* bits of the address; ff02:0000:0000:0000:0000:0001:ff00:0001 gives      *)
(* 33:33:ff:00:00:01.                                                      *)
(***************************************************************************)
\* the argument of the example, ff02:0000:0000:0000:0000:0001:ff00:0001
IsExampleArg6(k) ==
  args[k].text.chars =
    <<"f","f","0","2",":","0","0","0","0",":","0","0","0","0",":",
      "0","0","0","0",":","0","0","0","0",":","0","0","0","1",":",
      "f","f","0","0",":","0","0","0","1">>

\* the general rule: every multicast argument gets 33:33 and octets 13..16
Mip2mac6Rule ==
  fam = "IPv6" =>
    /\ \A k \in Consumed :
         ArgIsMulticast(k) => \E j \in 1..Len(out) : out[j].src = k
    /\ \A j \in 1..Len(out) :
         LET f        == args[out[j].src].fields
             expected == <<51, 51, f[7].v \div 256, f[7].v % 256,
                           f[8].v \div 256, f[8].v % 256>>
         IN  /\ ArgIsMulticast(out[j].src)
             /\ heap[out[j].ref].fam = "MAC"
             /\ heap[out[j].ref]._octet = expected
             /\ PrintsOctets(out[j].line, expected)

C13_Mip2mac6 ==
  /\ Mip2mac6Rule
  /\ fam = "IPv6" =>
       \A j \in 1..Len(out) :
         IsExampleArg6(out[j].src) =>
           /\ heap[out[j].ref]._octet = <<51, 51, 255, 0, 0, 1>>
           /\ PrintsOctets(out[j].line, <<51, 51, 255, 0, 0, 1>>)

\* C13 as stated, with its example: the example argument gives
\* 33:33:01:ff:00:01
C13_AsStated ==
  /\ Mip2mac6Rule
  /\ fam = "IPv6" =>
       \A j \in 1..Len(out) :
         IsExampleArg6(out[j].src) =>
           /\ heap[out[j].ref]._octet = <<51, 51, 1, 255, 0, 1>>
           /\ PrintsOctets(out[j].line, <<51, 51, 1, 255, 0, 1>>)

C13_Witness ==
  /\ fam = "IPv6"
  /\ Len(out) >= 1
  /\ IsExampleArg6(out[1].src)
  /\ out[1].line = <<"3","3",":","3","3",":","f","f",":","0","0",":","0","0",":","0","1">>

(***************************************************************************)
(* C14: a derivation asked for a non-multicast IPv4 or IPv6 address is an  *)
(* error reported to the caller, not a silent pass-through: no such        *)
(* request completes without an error outcome.                             *)
(***************************************************************************)
C14_NotMulticastIsError ==
  \A k \in Consumed :
    (ArgIsAddress(k) /\ ~ArgIsMulticast(k)) => err # "none"

(***************************************************************************)
(* Reading an address back from IPv6 text (RFC 4291, section 2.2): eight   *)
(* groups of one to four hex digits, or fewer groups with one "::" that    *)
(* stands for the missing groups of zeros.  <<>> when the text is no       *)
(* address.                                                                *)
(***************************************************************************)
IsGroupText(g) ==
  /\ Len(g) \in 1..4
  /\ \A i \in 1..Len(g) : IsDigit(g[i], 16)

GroupTexts(s) == IF s = <<>> THEN <<>> ELSE PySplit(s, ":")

Zeros(n) == [i \in 1..n |-> 0]

ReadIPv6(s) ==
  LET gaps == {i \in 1..(Len(s) - 1) : s[i] = ":" /\ s[i + 1] = ":"}
  IN  IF gaps = {}
      THEN LET parts == GroupTexts(s)
           IN  IF Len(parts) = 8 /\ \A i \in 1..8 : IsGroupText(parts[i])
               THEN [i \in 1..8 |-> DigitsValue(parts[i], 16)]
               ELSE <<>>
      ELSE IF Cardinality(gaps) > 1 THEN <<>>
      ELSE LET at     == CHOOSE i \in gaps : TRUE
               left   == GroupTexts(SubSeq(s, 1, at - 1))
               right  == GroupTexts(SubSeq(s, at + 2, Len(s)))
               groups == left \o right
           IN  IF Len(groups) <= 7 /\ \A i \in 1..Len(groups) : IsGroupText(groups[i])
               THEN [i \in 1..Len(left) |-> DigitsValue(left[i], 16)]
                      \o Zeros(8 - Len(groups))
                      \o [i \in 1..Len(right) |-> DigitsValue(right[i], 16)]
               ELSE <<>>

\* the low 64 bits of the Modified EUI-64 address of MAC bytes m
Eui64Groups(m) ==
  << BitXor(m[1], 2) * 256 + m[2], m[3] * 256 + 255,
     254 * 256 + m[4], m[5] * 256 + m[6] >>

(***************************************************************************)
(* C15: Modified EUI-64: for every accepted MAC m0..m5 and 64-bit prefix,  *)
(* the derived address is the 128-bit address whose high 64 bits are the   *)
(* prefix and whose low 64 bits are (m0 XOR 2), m1, m2, FF, FE, m3, m4,    *)
(* m5; 00:11:22:33:44:55 with 2001:db8:: gives                             *)
(* 2001:0db8:0000:0000:0211:22ff:fe33:4455.                                *)
(***************************************************************************)
C15_ModifiedEui64 ==
  \A j \in 1..Len(out) :
    LET m == lines[out[j].src].bytes
    IN  m # <<>> =>
          ReadIPv6(out[j].addr) = v6_prefix.groups \o Eui64Groups(m)

(***************************************************************************)
(* C16: EUI-64 input validation: a line is accepted exactly when, after    *)
(* delimiter removal, it is 12 hex characters with the I/G bit of the      *)
(* first byte clear; every other line is skipped and the batch goes on to  *)
(* the next line.                                                          *)
(***************************************************************************)
\* the line is 12 hex characters, I/G bit of the first byte clear
IsUnicastMacLine(k) ==
  /\ lines[k].bytes # <<>>
  /\ lines[k].bytes[1] % 2 = 0

C16_EuiValidation ==
  /\ pc # "crashed"
  /\ \A k \in 1..idx :
       IsUnicastMacLine(k) <=> \E j \in 1..Len(out) : out[j].src = k

(***************************************************************************)
(* C21: IPv4 private addressing: isPrivateAddress() is true exactly when   *)
(* the address lies in 10.0.0.0/8, 172.16.0.0/12, 192.168.0.0/16 or        *)
(* 239.0.0.0/8, and false for every other address.                         *)
(***************************************************************************)
\* the four ranges, on the first two fields the text was written from
InPrivateRanges(o1, o2) ==
  \/ o1 = 10
  \/ o1 = 172 /\ o2 \in 16..31
  \/ o1 = 192 /\ o2 = 168
  \/ o1 = 239

C21_PrivateRanges ==
  op = "isPrivateAddress" =>
    ("isPrivateAddress" \in ret.true <=> InPrivateRanges(inFields[1].v, inFields[2].v))

(***************************************************************************)
(* C30: _setOctet(index, value) changes nothing and raises nothing when    *)
(* index is outside 1..len or value is outside 0..255; otherwise exactly   *)
(* the octet at that 1-based index becomes value, every other octet and    *)
(* the prefix length staying as they were.                                 *)
(***************************************************************************)
C30_SetOctetFrame ==
  op = "_setOctet" =>
    LET octet == arg[1]
        value == arg[2]
        now   == heap[self]
        valid == octet \in 1..Len(pre._octet) /\ value \in 0..255
    IN  /\ err = "none"
        /\ now._addrLen = pre._addrLen
        /\ now.fam = pre.fam
        /\ Len(now._octet) = Len(pre._octet)
        /\ \A i \in 1..Len(pre._octet) :
             now._octet[i] = IF valid /\ i = octet THEN value ELSE pre._octet[i]

\* an invalid value left the object alone, and a valid call changed octet 4
C30_Witness ==
  /\ op = "_setOctet"
  /\ fam = "IPv4"
  /\ arg = <<4, 255>>
  /\ pre._octet[4] = 1
  /\ heap[self]._octet[4] = 255

C26_GroupSplit ==
  (fam = "IPv6" /\ pc = "ready" /\ netCalls = 0) =>
    /\ Len(inFields) = 8
    /\ Len(heap[self]._octet) = 16
    /\ \A k \in 1..8 :
         /\ inFields[k].v \in 0..65535
         /\ getOctet(heap[self], 2 * k - 1) = inFields[k].v \div 256
         /\ getOctet(heap[self], 2 * k) = inFields[k].v % 256

\* 2001:...:a55a parsed: octets 0x20, 0x01 first and 0xa5, 0x5a last
C26_Witness ==
  /\ fam = "IPv6"
  /\ pc = "ready"
  /\ netCalls = 0
  /\ inFields[1].v = 8193
  /\ inFields[8].v = 42330
  /\ heap[self]._octet[1] = 32
  /\ heap[self]._octet[2] = 1
  /\ heap[self]._octet[15] = 165
  /\ heap[self]._octet[16] = 90

(***************************************************************************)
(* C28: derived multicast MACs are well-formed: for every multicast IPv4   *)
(* or IPv6 argument, the MAC text built by the script parses as a          *)
(* MACAddress (six fields, each in 0..255) and that MAC is itself          *)
(* multicast (I/G bit set).                                                *)
(***************************************************************************)
C28_DerivedMacWellFormed ==
  /\ pc = "crashed" => ~ArgIsMulticast(idx + 1)
  /\ \A k \in Consumed :
       ArgIsMulticast(k) => \E j \in 1..Len(out) : out[j].src = k
  /\ \A j \in 1..Len(out) :
       LET mac == heap[out[j].ref]
       IN  /\ mac.fam = "MAC"
           /\ Len(mac._octet) = 6
           /\ \A i \in 1..6 : mac._octet[i] \in 0..255
           /\ mac._octet[1] % 2 = 1
           /\ PrintsOctets(out[j].line, mac._octet)

\* a run of each script's family ended with two MACs printed, the second
\* from the largest octets of the pools
C28_Witness ==
  /\ pc = "done"
  /\ Len(out) = 2
  /\ Len(heap) = 4
  /\ \/ fam = "IPv4" /\ heap[out[2].ref]._octet = <<1, 0, 94, 127, 17, 255>>
     \/ fam = "IPv6" /\ heap[out[2].ref]._octet = <<51, 51, 1, 2, 165, 90>>

(***************************************************************************)
(* C29: IPv4 multicast to MAC depends only on the low-order 23 bits: two   *)
(* multicast IPv4 addresses derive the same MAC if and only if they agree  *)
(* on (octet 2 mod 128), octet 3 and octet 4; the first octet and the top  *)
(* bit of octet 2 never affect the result.                                 *)
(***************************************************************************)
\* the low-order 23 bits of argument k, as the three values they fill
Low23(k) ==
  <<args[k].fields[2].v % 128, args[k].fields[3].v, args[k].fields[4].v>>

C29_Low23Bits ==
  fam = "IPv4" =>
    \A i, j \in 1..Len(out) :
      /\ (heap[out[i].ref]._octet = heap[out[j].ref]._octet)
           <=> (Low23(out[i].src) = Low23(out[j].src))
      /\ (out[i].line = out[j].line) <=> (Low23(out[i].src) = Low23(out[j].src))

\* two arguments that differ in the first octet and in the top bit of the
\* second gave one MAC; so the run printed the same line twice
C29_Witness ==
  /\ fam = "IPv4"
  /\ Len(out) = 2
  /\ args[out[1].src].fields[1].v # args[out[2].src].fields[1].v
  /\ args[out[1].src].fields[2].v = 1
  /\ args[out[2].src].fields[2].v = 129
  /\ out[1].line = out[2].line

(***************************************************************************)
(* C23: MTU binary search result: if there is a size M with                *)
(* lower <= M <= upper such that every probe of size <= M gets an          *)
(* echo-reply and every larger probe gets none, find_mtu(lower, upper,     *)
(* ...) returns exactly M; an echo-reply at mid continues the search in    *)
(* [mid+1, upper] and a failure continues it in [lower, mid-1].            *)
(***************************************************************************)
\* the network has a path MTU inside the interval of the initial call
PathMtuInside ==
  /\ net.mode = "path"
  /\ call0.lower <= net.mtu
  /\ net.mtu <= call0.upper

C23_BinarySearch ==
  /\ PathMtuInside => /\ pc # "crashed"
                      /\ pc = "done" => mtu = net.mtu
  /\ caller # NoCall =>
       IF caller.ok
       THEN lower = caller.mid + 1 /\ upper = caller.upper
       ELSE lower = caller.lower /\ upper = caller.mid - 1

(***************************************************************************)
(* C24: probe retries: for each midpoint find_mtu sends at most `retry`    *)
(* probes, stops at the first probe that receives any response, then       *)
(* classifies the midpoint from that response (OK only for an echo-reply,  *)
(* FAIL for another response or when no probe was answered); the           *)
(* classification is always reached with a defined response value.         *)
(***************************************************************************)
C24_ProbeRetries ==
  /\ tries <= retry
  /\ (pc = "probe" /\ tries > 0) => resp.kind = "None"
  /\ (pc = "classify" /\ resp.kind = "None") => tries = retry
  /\ pc = "classify" => resp.kind # "unbound"
  /\ err # "UnboundLocalError"
  /\ caller # NoCall => (caller.ok <=> caller.resp = EchoReply(dest_ip))

(***************************************************************************)
(* C25: probe size: for every midpoint that find_mtu passes to _make_ping  *)
(* the packet's total IP size equals the midpoint (20+8 header bytes and   *)
(* mid-28 payload bytes for IPv4, 40+8 and mid-48 for IPv6), so the        *)
(* assertion len(pkt) == mid never fails.                                  *)
(***************************************************************************)
C25_ProbeSize ==
  /\ err # "AssertionError"
  /\ (pc \in {"probe", "classify"} /\ tries > 0) =>
       /\ pkt.ip + pkt.icmp = (IF HasColon(dest_ip) THEN 48 ELSE 28)
       /\ Len(pkt.payload) = mid - (IF HasColon(dest_ip) THEN 48 ELSE 28)
       /\ PktLen(pkt) = mid

(***************************************************************************)
(* C27: find_mtu terminates for every lower, upper and every pattern of    *)
(* probe responses (with retry >= 1): each recursive call strictly shrinks *)
(* the interval [lower, upper], every probed midpoint lies inside the      *)
(* current interval, and the returned value is between lower-1 and upper   *)
(* of the initial call.                                                    *)
(***************************************************************************)
\* the call is over (it returned or raised); retry never changes, so a run
\* with retry < 1 is outside the claim from its first state
MtuOver == retry < 1 \/ pc \in {"done", "crashed"}

\* a recursive call is made on a strictly smaller interval
Shrinks ==
  (pc = "classify" /\ pc' = "call") =>
    /\ upper' - lower' < upper - lower
    /\ lower' >= lower
    /\ upper' <= upper

\* v lies between a and b, whichever of the two is the smaller
Between(v, a, b) == (a <= v /\ v <= b) \/ (b <= v /\ v <= a)

MtuInRange ==
  retry >= 1 =>
    /\ pc \in {"probe", "classify"} => (lower <= mid /\ mid <= upper)
    /\ pc = "done" => Between(mtu, call0.lower - 1, call0.upper)

====
